---- MODULE Spec2Model ----
(***************************************************************************)
(* langchain-velatir: the two governance hooks                             *)
(*   VelatirGuardrailMiddleware.after_agent  (middleware.py 120-265)       *)
(*   VelatirHITLMiddleware.after_model       (middleware.py 334-428)       *)
(* and the client wrapper they call (client.py).  The Velatir SDK client   *)
(* behind the wrapper is the environment: each of its calls returns a      *)
(* verdict or raises, chosen nondeterministically.                         *)
(***************************************************************************)
EXTENDS Integers, Sequences, FiniteSets, TLC

VARIABLES
    mw,         \* the middleware instance: its class and configuration
    pc,         \* position of the current hook invocation
    messages,   \* state["messages"] of the invocation (objects may be annotated in place)
    orig,       \* the message sequence as it was handed to the hook
    tool_calls, \* after_model: the (filtered) tool calls being reviewed
    idx,        \* after_model: position of the for loop in tool_calls
    response,   \* the immediate verdict of the last submission
    final,      \* the verdict returned by the last wait
    result,     \* how the invocation ended
    calls,      \* the calls made on the SDK client during the invocation, in order
    observed,   \* per submitted task, in order: the last verdict the hook has seen for it
    sdk,        \* what the SDK client answered to the last call made on it
    poll,       \* a wait in progress, followed status call by status call
    pair        \* two invocations on one instance: the one not running, and what the
                \* SDK answered to each

vars == <<mw, pc, messages, orig, tool_calls, idx, response, final, result, calls, observed,
         sdk, poll, pair>>

(***************************************************************************)
(* Bounds of the model.                                                    *)
(***************************************************************************)
MaxMsgs == 2      \* longest message sequence handed to a hook
MaxCalls == 2     \* most tool calls carried by one message
MaxInterval == 2  \* largest polling_interval of a followed wait
MaxTimeout == 4   \* largest timeout of a followed wait
MaxPolls == 4     \* status calls followed of a wait that has no attempt cap

NoneVal == "None"

(***************************************************************************)
(* Verdicts.                                                               *)
(***************************************************************************)
ReviewTaskState ==
    {"Pending", "Processing", "Approved", "RequiresIntervention", "Rejected", "ChangeRequested"}

TerminalStates == {"Approved", "Rejected", "ChangeRequested"}

BlockingStates == {"Rejected", "ChangeRequested"}

\* requested_change: an explanation given with a blocking verdict, or None
Reasons(st) == IF st \in BlockingStates THEN {NoneVal, "use a safer tool"} ELSE {NoneVal}

VelatirResponse(id, st, rc) ==
    [review_task_id |-> id, state |-> st, requested_change |-> rc]

NoResponse == [review_task_id |-> 0, state |-> NoneVal, requested_change |-> NoneVal]

is_approved(r) == r.state = "Approved"
\* variant: a pending verdict counts as a denial
is_denied_OrPending(r) == r.state \in {"Rejected", "Pending"}

is_denied(r) == r.state = "Rejected"
is_change_requested(r) == r.state = "ChangeRequested"

GuardrailMode == {"blocking", "logging"}

(***************************************************************************)
(* Messages.  additional_kwargs is a dict: a function on its set of keys.  *)
(***************************************************************************)
EmptyDict == [k \in {} |-> NoneVal]

DictSet(d, key, val) ==
    [k \in (DOMAIN d) \cup {key} |-> IF k = key THEN val ELSE d[k]]

Message(type, content, tcs, kwargs) ==
    [type |-> type, content |-> content, tool_calls |-> tcs, additional_kwargs |-> kwargs]

AIMessage(content, kwargs) == Message("ai", content, <<>>, kwargs)

Last(s) == s[Len(s)]
ButLast(s) == SubSeq(s, 1, Len(s) - 1)

ErrorKinds == {"ServiceError", "SdkTimeoutError"}

(***************************************************************************)
(* client.py: the wrapper around the SDK client.                           *)
(***************************************************************************)
\* an Optional[float] argument: <<>> is None, <<t>> is the value t
Unset == <<>>
Some(t) == <<t>>

\* Durations (timeouts, poll intervals, clock readings) are Python floats in the
\* code.  The model counts them in tenths of a second: the count n is the float
\* nearest n / 10, so 3 is 0.3 and Seconds(30) is 30.0.
Seconds(n) == 10 * n

\* The arithmetic of the float division is written with functions over exact integers.
Pow2[i \in Nat] == IF i = 0 THEN 1 ELSE 2 * Pow2[i - 1]

\* Natural numbers beyond the machine integers, as the mantissas of floats need them:
\* the digits in base Base, least significant first, without leading zeros.
Base == Pow2[15]
BigNat == Seq(Nat)

Big[i \in Nat] == IF i = 0 THEN <<>> ELSE <<i % Base>> \o Big[i \div Base]

\* digits * by + carry for 0 < by < Base
BigTimes[digits \in BigNat, by \in Nat, carry \in Nat] ==
    IF digits = <<>> THEN Big[carry]
    ELSE <<(Head(digits) * by + carry) % Base>>
         \o BigTimes[Tail(digits), by, (Head(digits) * by + carry) \div Base]

\* digits * 2^i
BigShift[digits \in BigNat, i \in Nat] ==
    IF digits = <<>> THEN <<>>
    ELSE IF i >= 15 THEN <<0>> \o BigShift[digits, i - 15]
    ELSE BigTimes[digits, Pow2[i], 0]

\* a quotient q with the remainder r
DivMods == [q : BigNat, r : Nat]

\* one step of the long division: the quotient and remainder hi of the higher digits,
\* then the next digit
DivStep[hi \in DivMods, digit \in Nat, by \in Nat] ==
    [q |-> IF hi.q = <<>> /\ (hi.r * Base + digit) \div by = 0 THEN <<>>
           ELSE <<(hi.r * Base + digit) \div by>> \o hi.q,
     r |-> (hi.r * Base + digit) % by]

\* quotient and remainder of digits by by, 0 < by < Base
BigDivMod[digits \in BigNat, by \in Nat] ==
    IF digits = <<>> THEN [q |-> <<>>, r |-> 0]
    ELSE DivStep[BigDivMod[Tail(digits), by], Head(digits), by]

\* digits + i for 0 <= i < Base
BigPlus[digits \in BigNat, i \in Nat] ==
    IF i = 0 THEN digits
    ELSE IF digits = <<>> THEN Big[i]
    ELSE <<(Head(digits) + i) % Base>> \o BigPlus[Tail(digits), (Head(digits) + i) \div Base]

BigTrim[digits \in Seq(Nat)] ==
    IF digits = <<>> THEN <<>>
    ELSE IF digits[Len(digits)] = 0 THEN BigTrim[ButLast(digits)]
    ELSE digits

\* left - right - borrow for left >= right + borrow, digit by digit
BigMinusDigits[left \in BigNat, right \in BigNat, borrow \in Nat] ==
    IF left = <<>> THEN <<>>
    ELSE LET less == (IF right = <<>> THEN 0 ELSE Head(right)) + borrow
         IN <<IF Head(left) < less THEN Head(left) + Base - less ELSE Head(left) - less>>
            \o BigMinusDigits[Tail(left), IF right = <<>> THEN <<>> ELSE Tail(right),
                              IF Head(left) < less THEN 1 ELSE 0]

BigMinus[left \in BigNat, right \in BigNat] == BigTrim[BigMinusDigits[left, right, 0]]

\* left >= right
BigGeq[left \in BigNat, right \in BigNat] ==
    IF Len(left) # Len(right) THEN Len(left) > Len(right)
    ELSE IF left = <<>> THEN TRUE
    ELSE IF left[Len(left)] # right[Len(right)] THEN left[Len(left)] > right[Len(right)]
    ELSE BigGeq[ButLast(left), ButLast(right)]

\* floor(log2(i / j)) for i, j > 0
FloorLog2[i \in Nat, j \in Nat] ==
    IF i < j THEN FloorLog2[2 * i, j] - 1
    ELSE IF i >= 2 * j THEN FloorLog2[i, 2 * j] + 1
    ELSE 0

\* a float: the value m / 2^s
Doubles == [m : BigNat, s : Nat]

\* the mantissa nearest a quotient d.q with remainder d.r of the division by 10, ties
\* to even
Nearest[d \in DivMods, s \in Nat] ==
    [m |-> IF \/ 2 * d.r > Seconds(1)
              \/ 2 * d.r = Seconds(1) /\ d.q # <<>> /\ Head(d.q) % 2 = 1
           THEN BigPlus[d.q, 1] ELSE d.q,
     s |-> s]

Scaled[i \in Nat, s \in Nat] == Nearest[BigDivMod[BigShift[Big[i], s], Seconds(1)], s]

\* the float of the duration i > 0: the IEEE-754 double nearest i / 10 (53 bits of
\* mantissa)
Double[i \in Nat] == Scaled[i, 52 - FloorLog2[i, Seconds(1)]]

\* x >= k * y for floats x, y and an integer k > 0
AtLeastTimes[x \in Doubles, k \in Nat, y \in Doubles] ==
    BigGeq[BigShift[x.m, y.s], BigTimes[BigShift[y.m, x.s], k, 0]]

\* x / y >= i - 2^-g
Near[x \in Doubles, y \in Doubles, i \in Nat, g \in Nat] ==
    BigGeq[BigShift[x.m, y.s + g],
           BigMinus[BigTimes[BigShift[y.m, x.s + g], i, 0], BigShift[y.m, x.s]]]

\* half the gap between the integer i, 2^j <= i < 2^(j+1), and the double just below it
\* is 2^-HalfGap
HalfGap[i \in Nat, j \in Nat] == IF i = Pow2[j] THEN 54 - j ELSE 53 - j

\* the float division x / y gives the integer i > 0, its true quotient lying below i:
\* the quotient is no further from i than half the gap below i (on the half, the even
\* mantissa, i's, is taken)
RoundsUpTo[x \in Doubles, y \in Doubles, i \in Nat] ==
    Near[x, y, i, HalfGap[i, FloorLog2[i, 1]]]

\* the division rounds the true quotient, whose integer part is below, to the nearest
\* double, which may be the next integer; int() drops the fraction
Rounded[x \in Doubles, y \in Doubles, below \in Nat] ==
    IF RoundsUpTo[x, y, below + 1] THEN below + 1 ELSE below

\* the true quotient of the floats x and y has the integer part k or k - 1, k being the
\* integer part of the quotient of the counts
Floored[x \in Doubles, y \in Doubles, k \in Nat] ==
    Rounded[x, y, IF k = 0 THEN 0 ELSE IF AtLeastTimes[x, k, y] THEN k ELSE k - 1]

\* int(t / p) for floats t >= 0 and p > 0
TruncatedQuotient[t \in Nat, p \in Nat] ==
    IF t = 0 THEN 0 ELSE Floored[Double[t], Double[p], t \div p]

\* int(t / p) for p > 0: the float quotient truncated toward zero
IntQuotient(t, p) ==
    (IF t >= 0 THEN 1 ELSE -1) * TruncatedQuotient[IF t >= 0 THEN t ELSE -t, p]

\* variant: no cap is ever computed
MaxAttempts_Uncapped(polling_interval, timeout) == Unset

\* variant: the "+ 1" is missing
MaxAttempts_NoPlusOne(polling_interval, timeout) ==
    IF timeout = Unset THEN Unset ELSE Some(IntQuotient(timeout[1], polling_interval))

\* max_attempts handed to the SDK's polling loop by wait_for_approval_sync: None when
\* timeout is None, else int(timeout / polling_interval) + 1
MaxAttempts(polling_interval, timeout) ==
    IF timeout = Unset THEN Unset ELSE Some(IntQuotient(timeout[1], polling_interval) + 1)

\* variant: an unset timeout is treated as 0
MaxAttemptsAsync_UnsetIsZero(polling_interval, timeout) ==
    IF timeout = Unset THEN Some(1) ELSE Some(IntQuotient(timeout[1], polling_interval) + 1)

\* the same computation in wait_for_approval (the asynchronous convention)
MaxAttemptsAsync(polling_interval, timeout) ==
    IF timeout = Unset THEN Unset ELSE Some(IntQuotient(timeout[1], polling_interval) + 1)

\* create_review_task (asynchronous) passes the SDK's outcome through
create_review_task(outcome) ==
    IF outcome.kind = "resp"
    THEN [kind |-> "return", resp |-> outcome.resp]
    ELSE [kind |-> "raise", exc |-> [type |-> outcome.error]]

\* get_review_task_status (asynchronous) passes the SDK's outcome through
get_review_task_status(outcome) ==
    IF outcome.kind = "resp"
    THEN [kind |-> "return", resp |-> outcome.resp]
    ELSE [kind |-> "raise", exc |-> [type |-> outcome.error]]

\* get_review_task_status_sync passes the SDK's outcome through
get_review_task_status_sync(outcome) ==
    IF outcome.kind = "resp"
    THEN [kind |-> "return", resp |-> outcome.resp]
    ELSE [kind |-> "raise", exc |-> [type |-> outcome.error]]

\* create_review_task_sync passes the SDK's outcome through
create_review_task_sync(outcome) ==
    IF outcome.kind = "resp"
    THEN [kind |-> "return", resp |-> outcome.resp]
    ELSE [kind |-> "raise", exc |-> [type |-> outcome.error]]

\* variant: the SDK's timeout is not translated and passes through like any other error
wait_for_approval_sync_Raw(review_task_id, polling_interval, timeout, outcome) ==
    IF outcome.kind = "resp"
    THEN [kind |-> "return", resp |-> outcome.resp]
    ELSE IF outcome.kind = "sdk_timeout"
    THEN [kind |-> "raise", exc |-> [type |-> "SdkTimeoutError"]]
    ELSE [kind |-> "raise", exc |-> [type |-> outcome.error]]

\* variant: the asynchronous wait lets the SDK's timeout error through
wait_for_approval_Raw(review_task_id, polling_interval, timeout, outcome) ==
    IF outcome.kind = "resp"
    THEN [kind |-> "return", resp |-> outcome.resp]
    ELSE IF outcome.kind = "sdk_timeout"
    THEN [kind |-> "raise", exc |-> [type |-> "SdkTimeoutError"]]
    ELSE [kind |-> "raise", exc |-> [type |-> outcome.error]]

\* wait_for_approval (asynchronous): the same translation of the SDK's outcome
wait_for_approval(review_task_id, polling_interval, timeout, outcome) ==
    IF outcome.kind = "resp"
    THEN [kind |-> "return", resp |-> outcome.resp]
    ELSE IF outcome.kind = "sdk_timeout"
    THEN [kind |-> "raise",
          exc |-> [type |-> "VelatirTimeoutError",
                   review_task_id |-> review_task_id,
                   timeout_seconds |-> outcome.elapsed]]
    ELSE [kind |-> "raise", exc |-> [type |-> outcome.error]]

\* variant: the verdict the loop returned is not handed back
wait_for_approval_sync_NoReturn(review_task_id, polling_interval, timeout, outcome) ==
    IF outcome.kind = "resp"
    THEN [kind |-> "return", resp |-> NoResponse]
    ELSE IF outcome.kind = "sdk_timeout"
    THEN [kind |-> "raise",
          exc |-> [type |-> "VelatirTimeoutError",
                   review_task_id |-> review_task_id,
                   timeout_seconds |-> outcome.elapsed]]
    ELSE [kind |-> "raise", exc |-> [type |-> outcome.error]]

\* variant: the error carries the configured timeout instead of the elapsed time
wait_for_approval_sync_Configured(review_task_id, polling_interval, timeout, outcome) ==
    IF outcome.kind = "resp"
    THEN [kind |-> "return", resp |-> outcome.resp]
    ELSE IF outcome.kind = "sdk_timeout"
    THEN [kind |-> "raise",
          exc |-> [type |-> "VelatirTimeoutError",
                   review_task_id |-> review_task_id,
                   timeout_seconds |-> IF timeout = Unset THEN 0 ELSE timeout[1]]]
    ELSE [kind |-> "raise", exc |-> [type |-> outcome.error]]

\* wait_for_approval_sync: the SDK's timeout is re-raised as the package's own
\* VelatirTimeoutError; anything else passes through
wait_for_approval_sync(review_task_id, polling_interval, timeout, outcome) ==
    IF outcome.kind = "resp"
    THEN [kind |-> "return", resp |-> outcome.resp]
    ELSE IF outcome.kind = "sdk_timeout"
    THEN [kind |-> "raise",
          exc |-> [type |-> "VelatirTimeoutError",
                   review_task_id |-> review_task_id,
                   timeout_seconds |-> outcome.elapsed]]
    ELSE [kind |-> "raise", exc |-> [type |-> outcome.error]]

(***************************************************************************)
(* The environment: what the SDK client may answer.                        *)
(***************************************************************************)
\* the n-th submission of an invocation returns the immediate verdict of a new task
\* (its id is n), or fails
SdkCreateOutcomes(n) ==
    UNION {{[kind |-> "resp", resp |-> VelatirResponse(n, st, rc)] : rc \in Reasons(st)} :
              st \in ReviewTaskState}
    \cup {[kind |-> "error", error |-> e] : e \in ErrorKinds}

\* states a task in state st may be observed in later: a terminal state stays
NextStates(st) == IF st \in TerminalStates THEN {st} ELSE ReviewTaskState

\* a wait on task id returns a verdict of that task, reaches its attempt cap, or fails
ElapsedTimes == {0, 3}

SdkWaitOutcomes(id, st, max_attempts) ==
    UNION {{[kind |-> "resp", resp |-> VelatirResponse(id, s, rc)] : rc \in Reasons(s)} :
              s \in NextStates(st)}
    \cup (IF max_attempts = Unset THEN {}
          ELSE {[kind |-> "sdk_timeout", elapsed |-> e] : e \in ElapsedTimes})
    \cup {[kind |-> "error", error |-> e] : e \in {"ServiceError"}}

(***************************************************************************)
(* A wait followed status call by status call: the wrapper computes the    *)
(* attempt cap and notes the time, the SDK's loop asks the service for the *)
(* status until it is terminal or the cap is reached, sleeping             *)
(* polling_interval between two calls, and the wrapper translates what the *)
(* loop answered.                                                          *)
(***************************************************************************)
\* nothing answered yet
NoOutcome == [kind |-> "none"]

\* time.time() at the entry of a wait
StartTimes == {0, 7}

\* a single invocation at a time
PairNone == [cur |-> 0]

\* no wait is being followed
PollIdle ==
    [phase |-> "idle", conv |-> "none", review_task_id |-> 0, polling_interval |-> 0,
     timeout |-> Unset, max_attempts |-> Unset, attempts |-> 0, st |-> "none",
     start |-> 0, clock |-> 0, seen |-> <<>>, outcome |-> NoOutcome, wres |-> NoOutcome]

\* entry of wait_for_approval_sync (conv = "sync") or wait_for_approval ("async"):
\* start_time is noted and max_attempts computed; st is the state of the task
PollStart(conv, review_task_id, polling_interval, timeout, st, start) ==
    [phase |-> "polling", conv |-> conv, review_task_id |-> review_task_id,
     polling_interval |-> polling_interval, timeout |-> timeout,
     max_attempts |-> IF conv = "sync" THEN MaxAttempts(polling_interval, timeout)
                      ELSE MaxAttemptsAsync(polling_interval, timeout),
     attempts |-> 0, st |-> st, start |-> start, clock |-> start, seen |-> <<>>,
     outcome |-> NoOutcome, wres |-> NoOutcome]

\* the loop may make one more status call
MayPoll(q) ==
    IF q.max_attempts = Unset THEN q.attempts < MaxPolls ELSE q.attempts < q.max_attempts[1]

\* what the service can answer to a status call on a task last seen in state st
StatusAnswers(st) ==
    {[kind |-> "error", state |-> "none", requested_change |-> NoneVal]}
    \cup UNION {{[kind |-> "status", state |-> s, requested_change |-> rc] : rc \in Reasons(s)} :
                  s \in NextStates(st)}

\* one status call of the loop, answered ans: the service fails (the failure leaves the
\* loop), answers a terminal state (the loop returns it), or a non-terminal one (the
\* loop sleeps if another call may follow); seen keeps the answers in order
PollAnswer(q, ans) ==
    LET n == q.attempts + 1
        more == q.max_attempts = Unset \/ n < q.max_attempts[1]
    IN IF ans.kind = "error"
       THEN [q EXCEPT !.attempts = n, !.seen = Append(@, ans), !.phase = "answered",
                      !.outcome = [kind |-> "error", error |-> "ServiceError"]]
       ELSE IF ans.state \in TerminalStates
       THEN [q EXCEPT !.attempts = n, !.seen = Append(@, ans), !.st = ans.state,
                      !.phase = "answered",
                      !.outcome = [kind |-> "resp",
                                   resp |-> VelatirResponse(q.review_task_id, ans.state,
                                                            ans.requested_change)]]
       ELSE [q EXCEPT !.attempts = n, !.seen = Append(@, ans), !.st = ans.state,
                      !.clock = IF more THEN @ + q.polling_interval ELSE @]

\* the cap is reached without a terminal state: the loop raises the SDK's timeout error
PollGiveUp(q) ==
    [q EXCEPT !.phase = "answered",
              !.outcome = [kind |-> "sdk_timeout", elapsed |-> q.clock - q.start]]

SdkPoll ==
    /\ poll.phase = "polling"
    /\ MayPoll(poll)
    /\ \E ans \in StatusAnswers(poll.st) : poll' = PollAnswer(poll, ans)
    /\ UNCHANGED <<mw, pc, messages, orig, tool_calls, idx, response, final, result, calls,
                   observed, sdk, pair>>

SdkGiveUp ==
    /\ poll.phase = "polling"
    /\ poll.max_attempts # Unset
    /\ poll.attempts >= poll.max_attempts[1]
    /\ poll' = PollGiveUp(poll)
    /\ UNCHANGED <<mw, pc, messages, orig, tool_calls, idx, response, final, result, calls,
                   observed, sdk, pair>>

\* the wrapper's translation of what the loop answered, per calling convention
Translate(q) ==
    IF q.conv = "sync"
    THEN wait_for_approval_sync(q.review_task_id, q.polling_interval, q.timeout, q.outcome)
    ELSE wait_for_approval(q.review_task_id, q.polling_interval, q.timeout, q.outcome)

\* the loop entered in q and answered, status call by status call, by the answers of
\* script, as far as the script goes
RECURSIVE RunLoop(_, _)
RunLoop(q, script) ==
    IF q.phase # "polling" THEN q
    ELSE IF MayPoll(q)
    THEN IF script = <<>> THEN q ELSE RunLoop(PollAnswer(q, Head(script)), Tail(script))
    ELSE IF q.max_attempts # Unset THEN PollGiveUp(q)
    ELSE q

\* a whole wait on a scripted service: the status calls made and what the wrapper
\* returned or raised (nothing yet if the script ends while the loop still polls)
RunWait(conv, review_task_id, polling_interval, timeout, st, start, script) ==
    LET q == RunLoop(PollStart(conv, review_task_id, polling_interval, timeout, st, start),
                     script)
    IN [attempts |-> q.attempts,
        result |-> IF q.phase = "answered" THEN Translate(q) ELSE NoOutcome]

(***************************************************************************)
(* Results of a hook invocation.                                           *)
(***************************************************************************)
Running == [kind |-> "running"]
ReturnNone == [kind |-> "return_none"]
ReturnState(msgs) == [kind |-> "return_state", messages |-> msgs]
Raise(exc) == [kind |-> "raise", exc |-> exc]

(***************************************************************************)
(* Configuration of the two middleware classes (their __init__).           *)
(***************************************************************************)
PollingIntervals == {1, 2}
Timeouts == {3}
BlockedMessages == {"This response requires review and was not approved.", "custom blocked text"}
Metadatas == {EmptyDict, [team |-> "ops", middleware |-> "custom"]}
ToolNames == {"read_file", "delete_file"}

\* VelatirGuardrailMiddleware.__init__
GuardrailInit(mode, approval_timeout, polling_interval, blocked_message, metadata) ==
    [class |-> "guardrail",
     mode |-> mode,
     approval_timeout |-> approval_timeout,
     polling_interval |-> polling_interval,
     blocked_message |-> blocked_message,
     metadata |-> metadata]

\* VelatirHITLMiddleware.__init__ ; require_approval_for is None or a list of names
HITLInit(polling_interval, timeout, require_approval_for, metadata) ==
    [class |-> "hitl",
     polling_interval |-> polling_interval,
     timeout |-> timeout,
     require_approval_for |-> require_approval_for,
     metadata |-> metadata]

AllowLists == {[none |-> TRUE, names |-> {}]}
              \cup {[none |-> FALSE, names |-> S] : S \in SUBSET ToolNames}

Middlewares ==
    {GuardrailInit(m, t, p, b, md) :
        m \in GuardrailMode, t \in Timeouts, p \in PollingIntervals,
        b \in BlockedMessages, md \in Metadatas}
    \cup {HITLInit(p, t, a, md) :
        p \in PollingIntervals, t \in Timeouts, a \in AllowLists, md \in Metadatas}

(***************************************************************************)
(* Construction with arguments left out: the defaults of the two __init__. *)
(***************************************************************************)
\* the defaults as the source gives them, in seconds
DefaultApprovalTimeout == 30
DefaultGuardrailInterval == 2
DefaultHITLInterval == 5
DefaultHITLTimeout == 600

\* an argument that was left out, a value given
Omitted == [kind |-> "omitted", v |-> NoneVal]
Given(v) == [kind |-> "given", v |-> v]

\* the value of a member of the enumeration GuardrailMode
MemberValue(name) == IF name = "BLOCKING" THEN "blocking" ELSE "logging"

\* GuardrailMode(s) for a string s: the name of the member whose value is s
MemberOfValue(s) == CHOOSE name \in {"BLOCKING", "LOGGING"} : MemberValue(name) = s

\* the mode argument: left out, a string, or a member of GuardrailMode
ModeArgs ==
    {Omitted}
    \cup {[kind |-> "str", v |-> s] : s \in GuardrailMode}
    \cup {[kind |-> "member", v |-> n] : n \in {"BLOCKING", "LOGGING"}}

\* variant: a mode given as a string is ignored
ModeOfArg_StringIgnored(a) ==
    IF a.kind = "member" THEN MemberValue(a.v) ELSE MemberValue("BLOCKING")

\* self.mode = GuardrailMode(mode) if isinstance(mode, str) else mode, the default
\* being GuardrailMode.BLOCKING; the instance's mode is held by its value
ModeOfArg(a) ==
    IF a.kind = "omitted" THEN MemberValue("BLOCKING")
    ELSE IF a.kind = "str" THEN MemberValue(MemberOfValue(a.v))
    ELSE MemberValue(a.v)

OrDefault(a, default) == IF a.kind = "omitted" THEN default ELSE a.v

\* a call of VelatirGuardrailMiddleware(api_key, ...)
GuardrailCall(mode, approval_timeout, polling_interval, blocked_message, metadata) ==
    [class |-> "call", of |-> "guardrail", mode |-> mode,
     approval_timeout |-> approval_timeout, polling_interval |-> polling_interval,
     blocked_message |-> blocked_message, metadata |-> metadata]

\* a call of VelatirHITLMiddleware(api_key, ...)
HITLCall(polling_interval, timeout, require_approval_for, metadata) ==
    [class |-> "call", of |-> "hitl", polling_interval |-> polling_interval,
     timeout |-> timeout, require_approval_for |-> require_approval_for,
     metadata |-> metadata]

\* the instance a constructor call makes
Construct(c) ==
    IF c.of = "guardrail"
    THEN GuardrailInit(ModeOfArg(c.mode),
                       OrDefault(c.approval_timeout, Seconds(DefaultApprovalTimeout)),
                       OrDefault(c.polling_interval, Seconds(DefaultGuardrailInterval)),
                       OrDefault(c.blocked_message,
                                 "This response requires review and was not approved."),
                       OrDefault(c.metadata, EmptyDict))
    ELSE HITLInit(OrDefault(c.polling_interval, Seconds(DefaultHITLInterval)),
                  OrDefault(c.timeout, Seconds(DefaultHITLTimeout)),
                  OrDefault(c.require_approval_for, [none |-> TRUE, names |-> {}]),
                  OrDefault(c.metadata, EmptyDict))

\* the constructor calls followed
ConstructorCalls ==
    {GuardrailCall(mode, t, p, Omitted, Omitted) :
        mode \in ModeArgs,
        t \in {Omitted} \cup {Given(x) : x \in Timeouts},
        p \in {Omitted, Given(1)}}
    \cup {HITLCall(p, t, a, Omitted) :
        p \in {Omitted, Given(1)},
        t \in {Omitted} \cup {Given(x) : x \in Timeouts},
        a \in {Omitted, Given([none |-> FALSE, names |-> {"delete_file"}])}}

(***************************************************************************)
(* Inputs: the message sequences handed to the hooks.                      *)
(***************************************************************************)
ToolCall(name, n) == [name |-> name, args |-> "args", id |-> n]

RECURSIVE SeqsUpTo(_, _)
SeqsUpTo(S, n) ==
    IF n = 0 THEN {<<>>}
    ELSE LET shorter == SeqsUpTo(S, n - 1)
         IN shorter \cup {Append(s, x) : s \in {t \in shorter : Len(t) = n - 1}, x \in S}

\* the tool_calls a message may carry: names in order, ids by position
ToolCallLists ==
    {[i \in 1..Len(ns) |-> ToolCall(ns[i], i)] : ns \in SeqsUpTo(ToolNames, MaxCalls)}

PlainMessages == {Message("human", "question", <<>>, EmptyDict),
                  Message("ai", "answer", <<>>, EmptyDict)}

LastMessages == PlainMessages
                \cup {Message("ai", "", tcs, EmptyDict) : tcs \in ToolCallLists \ {<<>>}}

MessageInputs ==
    {<<>>} \cup {Append(pre, m) : pre \in SeqsUpTo(PlainMessages, MaxMsgs - 1), m \in LastMessages}

\* str(m) of a message
Str(m) == <<"str", m>>

\* [str(m) for m in messages[-3:]]
ConversationContext(msgs) ==
    LET n == Len(msgs)
        from == IF n > 3 THEN n - 2 ELSE 1
    IN [i \in 1..(n - from + 1) |-> Str(msgs[from + i - 1])]

(***************************************************************************)
(* VelatirGuardrailMiddleware.after_agent                                  *)
(***************************************************************************)
\* variant: the substitute is appended after the response instead of taking its place
Substitute_Appended(msgs, content, kwargs) == Append(msgs, AIMessage(content, kwargs))

\* messages[:-1] + [AIMessage(content=..., additional_kwargs=...)]
Substitute(msgs, content, kwargs) == ButLast(msgs) \o <<AIMessage(content, kwargs)>>

\* variant: the substitute carries the default text instead of the configured one
BlockedState_DefaultText(m, msgs, r) ==
    ReturnState(Substitute(msgs, "This response requires review and was not approved.",
                           [velatir_blocked |-> TRUE,
                            review_task_id |-> r.review_task_id,
                            reason |-> r.requested_change]))

\* the substitute for a blocking verdict r
BlockedState(m, msgs, r) ==
    ReturnState(Substitute(msgs, m.blocked_message,
                           [velatir_blocked |-> TRUE,
                            review_task_id |-> r.review_task_id,
                            reason |-> r.requested_change]))

\* the substitute for a timed-out wait on the task of the immediate verdict r
TimeoutState(msgs, r) ==
    ReturnState(Substitute(msgs, "Response review timed out.",
                           [velatir_blocked |-> TRUE,
                            review_task_id |-> r.review_task_id,
                            reason |-> "Timeout waiting for approval"]))

\* the substitute for an exception e (str(e) is its detail)
ErrorState(msgs, e) ==
    ReturnState(Substitute(msgs, "Response blocked due to review system error.",
                           [velatir_blocked |-> TRUE, error |-> e.type]))

\* variant: the warning is not attached
WithWarning_Dropped(msgs, r) == msgs

\* last_message.additional_kwargs["velatir_warning"] = {...}: the message object
\* is annotated in place
WithWarning(msgs, r) ==
    [msgs EXCEPT ![Len(msgs)].additional_kwargs =
        DictSet(@, "velatir_warning",
                [review_task_id |-> r.review_task_id, reason |-> r.requested_change])]

\* variant: the entries of the task are written into the configured mapping
\* (self.metadata.update(...)), which is then the task's
ConfiguredMetadata_Updated(m, task) == task.metadata

\* self.metadata once the metadata of task has been built: task_metadata is a new
\* mapping ({**self.metadata, ...}), the configured one is as it was
ConfiguredMetadata(m, task) == m.metadata

\* the task built for the agent response
AgentTask(m, msgs) ==
    [op |-> "create_review_task_sync",
     function_name |-> "agent_response",
     args |-> [response |-> Last(msgs).content,
               conversation_context |-> ConversationContext(msgs)],
     metadata |-> DictSet(DictSet(m.metadata, "middleware", "VelatirGuardrailMiddleware"),
                          "mode", m.mode)]

WaitCall(review_task_id, polling_interval, timeout) ==
    [op |-> "wait_for_approval_sync",
     review_task_id |-> review_task_id,
     polling_interval |-> polling_interval,
     timeout |-> timeout,
     max_attempts |-> MaxAttempts(polling_interval, timeout)]

\* variant: the exception leaves the hook
AgentOnException_Reraise(m, msgs, e) ==
    [next |-> "done", result |-> Raise(e), messages |-> msgs]

\* variant: the failure is ignored in both modes
AgentOnException_FailOpen(m, msgs, e) ==
    [next |-> "done", result |-> ReturnNone, messages |-> msgs]

\* except Exception as e: the outcome depends on the mode
AgentOnException(m, msgs, e) ==
    [next |-> "done",
     result |-> IF m.mode = "blocking" THEN ErrorState(msgs, e) ELSE ReturnNone,
     messages |-> msgs]

\* variant: no fast path for an immediate approval, which is waited for like a
\* non-terminal verdict
AgentOnImmediate_AlwaysWait(m, msgs, r) ==
    IF is_denied(r) \/ is_change_requested(r)
    THEN IF m.mode = "blocking"
         THEN [next |-> "done", result |-> BlockedState(m, msgs, r), messages |-> msgs]
         ELSE [next |-> "done", result |-> ReturnNone, messages |-> WithWarning(msgs, r)]
    ELSE [next |-> "agent_wait", result |-> Running, messages |-> msgs]

\* the branch on the immediate verdict r
AgentOnImmediate(m, msgs, r) ==
    IF is_approved(r)
    THEN [next |-> "done", result |-> ReturnNone, messages |-> msgs]
    ELSE IF is_denied(r) \/ is_change_requested(r)
    THEN IF m.mode = "blocking"
         THEN [next |-> "done", result |-> BlockedState(m, msgs, r), messages |-> msgs]
         ELSE [next |-> "done", result |-> ReturnNone, messages |-> WithWarning(msgs, r)]
    ELSE [next |-> "agent_wait", result |-> Running, messages |-> msgs]

\* variant: a verdict still non-terminal after the wait is waited for again
AgentOnFinal_WaitAgain(m, msgs, fr) ==
    IF is_approved(fr)
    THEN [next |-> "done", result |-> ReturnNone, messages |-> msgs]
    ELSE IF is_denied(fr) \/ is_change_requested(fr)
    THEN [next |-> "done",
          result |-> IF m.mode = "blocking" THEN BlockedState(m, msgs, fr) ELSE ReturnNone,
          messages |-> msgs]
    ELSE [next |-> "agent_wait", result |-> Running, messages |-> msgs]

\* the branch on the verdict fr returned by the wait
AgentOnFinal(m, msgs, fr) ==
    IF is_approved(fr)
    THEN [next |-> "done", result |-> ReturnNone, messages |-> msgs]
    ELSE IF (is_denied(fr) \/ is_change_requested(fr)) /\ m.mode = "blocking"
    THEN [next |-> "done", result |-> BlockedState(m, msgs, fr), messages |-> msgs]
    ELSE [next |-> "done", result |-> ReturnNone, messages |-> msgs]

\* variant: after a timeout the response is submitted again
AgentOnTimeout_Retry(m, msgs, r) ==
    [next |-> "agent_submit", result |-> Running, messages |-> msgs]

\* variant: a timed-out wait blocks the response in both modes
AgentOnTimeout_BothModes(m, msgs, r) ==
    [next |-> "done", result |-> TimeoutState(msgs, r), messages |-> msgs]

\* except VelatirTimeoutError around the wait
AgentOnTimeout(m, msgs, r) ==
    [next |-> "done",
     result |-> IF m.mode = "blocking" THEN TimeoutState(msgs, r) ELSE ReturnNone,
     messages |-> msgs]

\* variant: polling_interval and timeout are passed in each other's place
AgentWaitCall_Swapped(m, r) ==
    WaitCall(r.review_task_id, m.approval_timeout, Some(m.polling_interval))

\* the arguments of the wait on the task of the immediate verdict r
AgentWaitCall(m, r) ==
    WaitCall(r.review_task_id, m.polling_interval, Some(m.approval_timeout))

\* variant: the type of the last message is not looked at
AfterAgentBegin_AnyLast(msgs) ==
    /\ pc = "idle"
    /\ mw.class = "guardrail"
    /\ messages' = msgs
    /\ orig' = msgs
    /\ IF msgs = <<>>
       THEN /\ pc' = "done"
            /\ result' = ReturnNone
       ELSE /\ pc' = "agent_submit"
            /\ result' = Running
    /\ UNCHANGED <<mw, tool_calls, idx, response, final, calls, observed, sdk, poll, pair>>

\* entry of after_agent: no messages, or a last message that is no AIMessage: return None
AfterAgentBegin(msgs) ==
    /\ pc = "idle"
    /\ mw.class = "guardrail"
    /\ messages' = msgs
    /\ orig' = msgs
    /\ IF msgs = <<>> \/ Last(msgs).type # "ai"
       THEN /\ pc' = "done"
            /\ result' = ReturnNone
       ELSE /\ pc' = "agent_submit"
            /\ result' = Running
    /\ UNCHANGED <<mw, tool_calls, idx, response, final, calls, observed, sdk, poll, pair>>

\* the submission, the SDK having answered sdk_out, and the branch on its immediate
\* verdict
AgentSubmitStep(sdk_out) ==
    LET out == create_review_task_sync(sdk_out)
        step == IF out.kind = "raise"
                THEN AgentOnException(mw, messages, out.exc)
                ELSE AgentOnImmediate(mw, messages, out.resp)
    IN /\ sdk' = sdk_out
       /\ calls' = Append(calls, AgentTask(mw, messages))
       /\ response' = IF out.kind = "return" THEN out.resp ELSE NoResponse
       /\ observed' = IF out.kind = "return" THEN Append(observed, out.resp) ELSE observed
       /\ pc' = step.next
       /\ result' = step.result
       /\ messages' = step.messages
       /\ mw' = [mw EXCEPT !.metadata = ConfiguredMetadata(mw, AgentTask(mw, messages))]
       /\ UNCHANGED <<orig, tool_calls, idx, final>>

\* the submission and the branch on its immediate verdict
AgentSubmit ==
    /\ pc = "agent_submit"
    /\ \E sdk_out \in SdkCreateOutcomes(Len(observed) + 1) : AgentSubmitStep(sdk_out)
    /\ UNCHANGED <<poll, pair>>

\* the end of the wait, the SDK having answered sdk_out, and the branch on its outcome
AgentWaitStep(sdk_out) ==
    LET call == AgentWaitCall(mw, response)
        out == wait_for_approval_sync(call.review_task_id, call.polling_interval,
                                      call.timeout, sdk_out)
        step == IF out.kind = "return"
                THEN AgentOnFinal(mw, messages, out.resp)
                ELSE IF out.exc.type = "VelatirTimeoutError"
                THEN AgentOnTimeout(mw, messages, response)
                ELSE AgentOnException(mw, messages, out.exc)
    IN /\ sdk' = sdk_out
       /\ calls' = Append(calls, call)
       /\ final' = IF out.kind = "return" THEN out.resp ELSE NoResponse
       /\ observed' = IF out.kind = "return"
                       THEN [observed EXCEPT ![Len(observed)] = out.resp]
                       ELSE observed
       /\ pc' = step.next
       /\ result' = step.result
       /\ messages' = step.messages
       /\ UNCHANGED <<mw, orig, tool_calls, idx, response>>

\* the wait for a non-terminal immediate verdict and the branch on its outcome
AgentWait ==
    /\ pc = "agent_wait"
    /\ LET call == AgentWaitCall(mw, response)
       IN \E sdk_out \in SdkWaitOutcomes(call.review_task_id, response.state, call.max_attempts) :
            AgentWaitStep(sdk_out)
    /\ UNCHANGED <<poll, pair>>

(***************************************************************************)
(* VelatirHITLMiddleware.after_model                                       *)
(***************************************************************************)
\* variant: an empty allow-list counts as none (if self.require_approval_for:)
FilterToolCalls_EmptyAsNone(m, tcs) ==
    IF m.require_approval_for.none \/ m.require_approval_for.names = {}
    THEN tcs
    ELSE SelectSeq(tcs, LAMBDA tc : tc.name \in m.require_approval_for.names)

\* variant: the allow-list is not applied
FilterToolCalls_Off(m, tcs) == tcs

\* tool_calls filtered by require_approval_for (None: every call is kept)
FilterToolCalls(m, tcs) ==
    IF m.require_approval_for.none
    THEN tcs
    ELSE SelectSeq(tcs, LAMBDA tc : tc.name \in m.require_approval_for.names)

\* the task built for tool call tc
ToolTask(m, msgs, tc) ==
    [op |-> "create_review_task_sync",
     function_name |-> tc.name,
     args |-> tc.args,
     metadata |-> DictSet(DictSet(DictSet(m.metadata, "tool_call_id", tc.id),
                                  "middleware", "VelatirHITLMiddleware"),
                          "conversation_context", ConversationContext(msgs))]

VelatirApprovalDeniedError(tool_name, fr) ==
    [type |-> "VelatirApprovalDeniedError",
     tool_name |-> tool_name,
     review_task_id |-> fr.review_task_id,
     requested_change |-> fr.requested_change]

VelatirTimeoutError(tool_name, review_task_id, timeout_seconds) ==
    [type |-> "VelatirTimeoutError",
     tool_name |-> tool_name,
     review_task_id |-> review_task_id,
     timeout_seconds |-> timeout_seconds]

\* variant: the hook returns None after the first cleared call instead of going on
ModelContinue_Return(tcs, i) ==
    [next |-> "done", result |-> ReturnNone, idx |-> i + 1]

\* continue: the for loop moves to the next tool call, or ends and the hook returns None
ModelContinue(tcs, i) ==
    IF i + 1 > Len(tcs)
    THEN [next |-> "done", result |-> ReturnNone, idx |-> i + 1]
    ELSE [next |-> "model_submit", result |-> Running, idx |-> i + 1]

\* the branch on the immediate verdict r of tool call i
ModelOnImmediate(tcs, i, r) ==
    IF is_approved(r)
    THEN ModelContinue(tcs, i)
    ELSE [next |-> "model_wait", result |-> Running, idx |-> i]

\* variant: a blocking verdict does not stop the loop
ModelOnFinal_NoAbort(tcs, i, fr) == ModelContinue(tcs, i)

\* the branch on the verdict fr returned by the wait for tool call i
ModelOnFinal(tcs, i, fr) ==
    IF is_approved(fr)
    THEN ModelContinue(tcs, i)
    ELSE IF is_denied(fr) \/ is_change_requested(fr)
    THEN [next |-> "done",
          result |-> Raise(VelatirApprovalDeniedError(tcs[i].name, fr)),
          idx |-> i]
    ELSE ModelContinue(tcs, i)

\* variant: the re-raised error keeps the elapsed time of the caught one
ModelOnTimeout_Elapsed(m, tcs, i, e) ==
    [next |-> "done",
     result |-> Raise(VelatirTimeoutError(tcs[i].name, e.review_task_id, e.timeout_seconds)),
     idx |-> i]

\* except VelatirTimeoutError as e: re-raised naming the tool and the configured timeout
ModelOnTimeout(m, tcs, i, e) ==
    [next |-> "done",
     result |-> Raise(VelatirTimeoutError(tcs[i].name, e.review_task_id, m.timeout)),
     idx |-> i]

\* variant: the exception is swallowed and the hook returns None
ModelOnException_Swallow(i, e) ==
    [next |-> "done", result |-> ReturnNone, idx |-> i]

\* any other exception leaves the hook as it is
ModelOnException(i, e) ==
    [next |-> "done", result |-> Raise(e), idx |-> i]

\* the arguments of the wait on the task of the immediate verdict r
ModelWaitCall(m, r) == WaitCall(r.review_task_id, m.polling_interval, Some(m.timeout))

\* entry of after_model: no messages, no tool calls, or none left by the filter: return None
AfterModelBegin(msgs) ==
    /\ pc = "idle"
    /\ mw.class = "hitl"
    /\ messages' = msgs
    /\ orig' = msgs
    /\ LET tcs == IF msgs = <<>> THEN <<>> ELSE FilterToolCalls(mw, Last(msgs).tool_calls)
       IN /\ tool_calls' = tcs
          /\ idx' = 1
          /\ IF tcs = <<>>
             THEN /\ pc' = "done"
                  /\ result' = ReturnNone
             ELSE /\ pc' = "model_submit"
                  /\ result' = Running
    /\ UNCHANGED <<mw, response, final, calls, observed, sdk, poll, pair>>

\* the submission of tool call idx, the SDK having answered sdk_out, and the branch on
\* its immediate verdict
ModelSubmitStep(sdk_out) ==
    LET out == create_review_task_sync(sdk_out)
        step == IF out.kind = "raise"
                THEN ModelOnException(idx, out.exc)
                ELSE ModelOnImmediate(tool_calls, idx, out.resp)
    IN /\ sdk' = sdk_out
       /\ calls' = Append(calls, ToolTask(mw, messages, tool_calls[idx]))
       /\ response' = IF out.kind = "return" THEN out.resp ELSE NoResponse
       /\ observed' = IF out.kind = "return" THEN Append(observed, out.resp) ELSE observed
       /\ pc' = step.next
       /\ result' = step.result
       /\ idx' = step.idx
       /\ final' = NoResponse
       /\ mw' = [mw EXCEPT !.metadata =
                    ConfiguredMetadata(mw, ToolTask(mw, messages, tool_calls[idx]))]
       /\ UNCHANGED <<messages, orig, tool_calls>>

\* one iteration of the loop: the submission of tool call idx and the branch on its
\* immediate verdict
ModelSubmit ==
    /\ pc = "model_submit"
    /\ \E sdk_out \in SdkCreateOutcomes(Len(observed) + 1) : ModelSubmitStep(sdk_out)
    /\ UNCHANGED <<poll, pair>>

\* the end of the wait for tool call idx, the SDK having answered sdk_out, and the
\* branch on its outcome
ModelWaitStep(sdk_out) ==
    LET call == ModelWaitCall(mw, response)
        out == wait_for_approval_sync(call.review_task_id, call.polling_interval,
                                      call.timeout, sdk_out)
        step == IF out.kind = "return"
                THEN ModelOnFinal(tool_calls, idx, out.resp)
                ELSE IF out.exc.type = "VelatirTimeoutError"
                THEN ModelOnTimeout(mw, tool_calls, idx, out.exc)
                ELSE ModelOnException(idx, out.exc)
    IN /\ sdk' = sdk_out
       /\ calls' = Append(calls, call)
       /\ final' = IF out.kind = "return" THEN out.resp ELSE NoResponse
       /\ observed' = IF out.kind = "return"
                       THEN [observed EXCEPT ![Len(observed)] = out.resp]
                       ELSE observed
       /\ pc' = step.next
       /\ result' = step.result
       /\ idx' = step.idx
       /\ UNCHANGED <<mw, messages, orig, tool_calls, response>>

\* the wait for tool call idx and the branch on its outcome
ModelWait ==
    /\ pc = "model_wait"
    /\ LET call == ModelWaitCall(mw, response)
       IN \E sdk_out \in SdkWaitOutcomes(call.review_task_id, response.state, call.max_attempts) :
            ModelWaitStep(sdk_out)
    /\ UNCHANGED <<poll, pair>>

(***************************************************************************)
(* The system: one middleware instance, invoked again and again.           *)
(***************************************************************************)
Init ==
    /\ mw \in Middlewares
    /\ pc = "idle"
    /\ messages = <<>>
    /\ orig = <<>>
    /\ tool_calls = <<>>
    /\ idx = 1
    /\ response = NoResponse
    /\ final = NoResponse
    /\ result = Running
    /\ calls = <<>>
    /\ observed = <<>>
    /\ sdk = NoOutcome
    /\ poll = PollIdle
    /\ pair = PairNone

\* the host takes the outcome of the invocation; the instance is ready for the next one
HookReturn ==
    /\ pc = "done"
    /\ pc' = "idle"
    /\ messages' = <<>>
    /\ orig' = <<>>
    /\ tool_calls' = <<>>
    /\ idx' = 1
    /\ response' = NoResponse
    /\ final' = NoResponse
    /\ result' = Running
    /\ calls' = <<>>
    /\ observed' = <<>>
    /\ sdk' = NoOutcome
    /\ UNCHANGED <<mw, poll, pair>>

Next ==
    \/ \E msgs \in MessageInputs : AfterAgentBegin(msgs)
    \/ AgentSubmit
    \/ AgentWait
    \/ \E msgs \in MessageInputs : AfterModelBegin(msgs)
    \/ ModelSubmit
    \/ ModelWait
    \/ HookReturn

Spec == Init /\ [][Next]_vars

(***************************************************************************)
(* The client wrapper on its own: waits called directly on a VelatirClient, *)
(* in either calling convention, and followed status call by status call.  *)
(***************************************************************************)
\* timeout is None or a number; a negative one is accepted by the wrapper too
WaitTimeouts == {Unset} \cup {Some(t) : t \in -1..MaxTimeout}

InitWait ==
    /\ mw = [class |-> "client"]
    /\ pc = "idle"
    /\ messages = <<>>
    /\ orig = <<>>
    /\ tool_calls = <<>>
    /\ idx = 1
    /\ response = NoResponse
    /\ final = NoResponse
    /\ result = Running
    /\ calls = <<>>
    /\ observed = <<>>
    /\ sdk = NoOutcome
    /\ poll = PollIdle
    /\ pair = PairNone

\* a caller enters wait_for_approval_sync or wait_for_approval on a task in state st
ClientWaitBegin(conv, review_task_id, polling_interval, timeout, st, start) ==
    /\ poll.phase = "idle"
    /\ poll' = PollStart(conv, review_task_id, polling_interval, timeout, st, start)
    /\ UNCHANGED <<mw, pc, messages, orig, tool_calls, idx, response, final, result, calls,
                   observed, sdk, pair>>

\* the wrapper returns the verdict or raises
ClientWaitEnd ==
    /\ poll.phase = "answered"
    /\ poll' = [poll EXCEPT !.phase = "returned", !.wres = Translate(poll)]
    /\ UNCHANGED <<mw, pc, messages, orig, tool_calls, idx, response, final, result, calls,
                   observed, sdk, pair>>

\* the caller has taken the result
ClientWaitTaken ==
    /\ poll.phase = "returned"
    /\ poll' = PollIdle
    /\ UNCHANGED <<mw, pc, messages, orig, tool_calls, idx, response, final, result, calls,
                   observed, sdk, pair>>

NextWait ==
    \/ \E conv \in {"sync", "async"}, id \in 1..MaxCalls, p \in 1..MaxInterval,
          t \in WaitTimeouts, st \in ReviewTaskState \ TerminalStates, start \in StartTimes :
            ClientWaitBegin(conv, id, p, t, st, start)
    \/ SdkPoll
    \/ SdkGiveUp
    \/ ClientWaitEnd
    \/ ClientWaitTaken

SpecWait == InitWait /\ [][NextWait]_vars

(***************************************************************************)
(* The hooks with their waits followed status call by status call, and the *)
(* thread of a running invocation always getting to take its next step.    *)
(***************************************************************************)
LiveMiddlewares ==
    {GuardrailInit(m, t, p, "This response requires review and was not approved.", EmptyDict) :
        m \in GuardrailMode, t \in Timeouts, p \in PollingIntervals}
    \cup {HITLInit(p, t, [none |-> TRUE, names |-> {}], EmptyDict) :
        p \in PollingIntervals, t \in Timeouts}

\* a single message handed to the hook
LiveInputs == {<<m>> : m \in LastMessages}

InitLive ==
    /\ mw \in LiveMiddlewares
    /\ pc = "idle"
    /\ messages = <<>>
    /\ orig = <<>>
    /\ tool_calls = <<>>
    /\ idx = 1
    /\ response = NoResponse
    /\ final = NoResponse
    /\ result = Running
    /\ calls = <<>>
    /\ observed = <<>>
    /\ sdk = NoOutcome
    /\ poll = PollIdle
    /\ pair = PairNone

\* after_agent enters wait_for_approval_sync
AgentWaitEnter ==
    /\ pc = "agent_wait"
    /\ poll.phase = "idle"
    /\ LET call == AgentWaitCall(mw, response)
       IN poll' = PollStart("sync", call.review_task_id, call.polling_interval, call.timeout,
                            response.state, 0)
    /\ UNCHANGED <<mw, pc, messages, orig, tool_calls, idx, response, final, result, calls,
                   observed, sdk, pair>>

\* the loop has answered: after_agent branches on the outcome of its wait
AgentWaitPolled ==
    /\ pc = "agent_wait"
    /\ poll.phase = "answered"
    /\ AgentWaitStep(poll.outcome)
    /\ poll' = PollIdle
    /\ UNCHANGED pair

\* after_model enters wait_for_approval_sync for tool call idx
ModelWaitEnter ==
    /\ pc = "model_wait"
    /\ poll.phase = "idle"
    /\ LET call == ModelWaitCall(mw, response)
       IN poll' = PollStart("sync", call.review_task_id, call.polling_interval, call.timeout,
                            response.state, 0)
    /\ UNCHANGED <<mw, pc, messages, orig, tool_calls, idx, response, final, result, calls,
                   observed, sdk, pair>>

\* the loop has answered: after_model branches on the outcome of its wait
ModelWaitPolled ==
    /\ pc = "model_wait"
    /\ poll.phase = "answered"
    /\ ModelWaitStep(poll.outcome)
    /\ poll' = PollIdle
    /\ UNCHANGED pair

\* the steps of a running invocation
LiveStep ==
    \/ AgentSubmit
    \/ AgentWaitEnter
    \/ AgentWaitPolled
    \/ ModelSubmit
    \/ ModelWaitEnter
    \/ ModelWaitPolled
    \/ SdkPoll
    \/ SdkGiveUp

NextLive ==
    \/ \E msgs \in LiveInputs : AfterAgentBegin(msgs)
    \/ \E msgs \in LiveInputs : AfterModelBegin(msgs)
    \/ AgentSubmit
    \/ AgentWaitEnter
    \/ AgentWaitPolled
    \/ ModelSubmit
    \/ ModelWaitEnter
    \/ ModelWaitPolled
    \/ SdkPoll
    \/ SdkGiveUp
    \/ HookReturn

SpecLive == InitLive /\ [][NextLive]_vars /\ WF_vars(LiveStep)

(***************************************************************************)
(* Instances as their constructors make them, then used.                   *)
(***************************************************************************)
InitNew ==
    /\ mw \in ConstructorCalls
    /\ pc = "idle"
    /\ messages = <<>>
    /\ orig = <<>>
    /\ tool_calls = <<>>
    /\ idx = 1
    /\ response = NoResponse
    /\ final = NoResponse
    /\ result = Running
    /\ calls = <<>>
    /\ observed = <<>>
    /\ sdk = NoOutcome
    /\ poll = PollIdle
    /\ pair = PairNone

\* __init__ runs: the call becomes the instance
New ==
    /\ mw.class = "call"
    /\ mw' = Construct(mw)
    /\ UNCHANGED <<pc, messages, orig, tool_calls, idx, response, final, result, calls,
                   observed, sdk, poll, pair>>

NextNew ==
    \/ New
    \/ \E msgs \in LiveInputs : AfterAgentBegin(msgs)
    \/ AgentSubmit
    \/ AgentWait
    \/ \E msgs \in LiveInputs : AfterModelBegin(msgs)
    \/ ModelSubmit
    \/ ModelWait
    \/ HookReturn

SpecNew == InitNew /\ [][NextNew]_vars

(***************************************************************************)
(* Two invocations on one instance, each on its own message sequence, in   *)
(* two threads that are switched at the calls of the client.  The          *)
(* variables of an invocation are those of the thread that runs; the other *)
(* thread's are kept in pair.susp.  pair.hist[k] is what the SDK answered  *)
(* to thread k, in order.                                                  *)
(***************************************************************************)
\* the local variables of the running invocation
Frame ==
    [pc |-> pc, messages |-> messages, orig |-> orig, tool_calls |-> tool_calls,
     idx |-> idx, response |-> response, final |-> final, result |-> result,
     calls |-> calls, observed |-> observed, sdk |-> sdk]

\* the local variables of an invocation not begun
IdleFrame ==
    [pc |-> "idle", messages |-> <<>>, orig |-> <<>>, tool_calls |-> <<>>,
     idx |-> 1, response |-> NoResponse, final |-> NoResponse, result |-> Running,
     calls |-> <<>>, observed |-> <<>>, sdk |-> NoOutcome]

\* variant: the verdicts are kept on the instance, where the other thread overwrites them
Resume_SharedVerdict(saved, running) ==
    [saved EXCEPT !.response = running.response, !.final = running.final]

\* what a thread finds when it runs again, the other having run in between: its own
\* local variables (the hooks keep nothing on the instance)
Resume(saved, running) == saved

PairMiddlewares ==
    {GuardrailInit(m, t, 1, "This response requires review and was not approved.", EmptyDict) :
        m \in GuardrailMode, t \in Timeouts}
    \cup {HITLInit(1, t, [none |-> TRUE, names |-> {}], EmptyDict) : t \in Timeouts}

\* the message sequence handed to thread k
PairInputs(k) ==
    IF k = 1
    THEN {<<Message("ai", "answer", <<>>, EmptyDict)>>,
          <<Message("ai", "", <<ToolCall("read_file", 1)>>, EmptyDict)>>}
    ELSE {<<Message("human", "question", <<>>, EmptyDict),
            Message("ai", "another answer", <<>>, EmptyDict)>>,
          <<Message("ai", "", <<ToolCall("delete_file", 1)>>, EmptyDict)>>}

\* the ids of the tasks of thread k: the service gives every task an id of its own
OwnIds(k) == ((k - 1) * MaxCalls + 1)..(k * MaxCalls)

InitPair ==
    /\ mw \in PairMiddlewares
    /\ pc = "idle"
    /\ messages = <<>>
    /\ orig = <<>>
    /\ tool_calls = <<>>
    /\ idx = 1
    /\ response = NoResponse
    /\ final = NoResponse
    /\ result = Running
    /\ calls = <<>>
    /\ observed = <<>>
    /\ sdk = NoOutcome
    /\ poll = PollIdle
    /\ pair = [cur |-> 1, susp |-> IdleFrame, hist |-> <<<<>>, <<>>>>]

\* the SDK's answer is noted for the running thread
Answered(sdk_out) == pair' = [pair EXCEPT !.hist[pair.cur] = Append(@, sdk_out)]

PairAgentSubmit ==
    /\ pc = "agent_submit"
    /\ \E sdk_out \in SdkCreateOutcomes((pair.cur - 1) * MaxCalls + Len(observed) + 1) :
          AgentSubmitStep(sdk_out) /\ Answered(sdk_out)
    /\ UNCHANGED poll

PairAgentWait ==
    /\ pc = "agent_wait"
    /\ LET call == AgentWaitCall(mw, response)
       IN \E sdk_out \in SdkWaitOutcomes(call.review_task_id, response.state, call.max_attempts) :
            AgentWaitStep(sdk_out) /\ Answered(sdk_out)
    /\ UNCHANGED poll

PairModelSubmit ==
    /\ pc = "model_submit"
    /\ \E sdk_out \in SdkCreateOutcomes((pair.cur - 1) * MaxCalls + Len(observed) + 1) :
          ModelSubmitStep(sdk_out) /\ Answered(sdk_out)
    /\ UNCHANGED poll

PairModelWait ==
    /\ pc = "model_wait"
    /\ LET call == ModelWaitCall(mw, response)
       IN \E sdk_out \in SdkWaitOutcomes(call.review_task_id, response.state, call.max_attempts) :
            ModelWaitStep(sdk_out) /\ Answered(sdk_out)
    /\ UNCHANGED poll

\* the running thread is suspended at a call of the client (or before its hook begins,
\* or after it ended) and the other thread runs
Switch ==
    LET next == Resume(pair.susp, Frame)
    IN /\ pair' = [pair EXCEPT !.cur = 3 - @, !.susp = Frame]
       /\ pc' = next.pc
       /\ messages' = next.messages
       /\ orig' = next.orig
       /\ tool_calls' = next.tool_calls
       /\ idx' = next.idx
       /\ response' = next.response
       /\ final' = next.final
       /\ result' = next.result
       /\ calls' = next.calls
       /\ observed' = next.observed
       /\ sdk' = next.sdk
       /\ UNCHANGED <<mw, poll>>

NextPair ==
    \/ \E msgs \in PairInputs(pair.cur) : AfterAgentBegin(msgs)
    \/ \E msgs \in PairInputs(pair.cur) : AfterModelBegin(msgs)
    \/ PairAgentSubmit
    \/ PairAgentWait
    \/ PairModelSubmit
    \/ PairModelWait
    \/ Switch

SpecPair == InitPair /\ [][NextPair]_vars

\* after_agent of instance m on msgs, run alone, the SDK answering h[1], h[2]: what it
\* returns and the message sequence it leaves
AloneAgent(m, msgs, h) ==
    IF msgs = <<>> \/ Last(msgs).type # "ai"
    THEN [result |-> ReturnNone, messages |-> msgs]
    ELSE LET out == create_review_task_sync(h[1])
             step == IF out.kind = "raise"
                     THEN AgentOnException(m, msgs, out.exc)
                     ELSE AgentOnImmediate(m, msgs, out.resp)
         IN IF step.next = "done"
            THEN [result |-> step.result, messages |-> step.messages]
            ELSE LET call == AgentWaitCall(m, out.resp)
                     wout == wait_for_approval_sync(call.review_task_id,
                                                    call.polling_interval, call.timeout, h[2])
                     wstep == IF wout.kind = "return"
                              THEN AgentOnFinal(m, msgs, wout.resp)
                              ELSE IF wout.exc.type = "VelatirTimeoutError"
                              THEN AgentOnTimeout(m, msgs, out.resp)
                              ELSE AgentOnException(m, msgs, wout.exc)
                 IN [result |-> wstep.result, messages |-> wstep.messages]

\* the loop of after_model from tool call i on, run alone, the SDK answering h in order
RECURSIVE AloneLoop(_, _, _, _)
AloneLoop(m, tcs, i, h) ==
    LET out == create_review_task_sync(h[1])
        step == IF out.kind = "raise"
                THEN ModelOnException(i, out.exc)
                ELSE ModelOnImmediate(tcs, i, out.resp)
    IN IF step.next = "done" THEN step.result
       ELSE IF step.next = "model_submit" THEN AloneLoop(m, tcs, step.idx, Tail(h))
       ELSE LET call == ModelWaitCall(m, out.resp)
                wout == wait_for_approval_sync(call.review_task_id, call.polling_interval,
                                               call.timeout, h[2])
                wstep == IF wout.kind = "return"
                         THEN ModelOnFinal(tcs, i, wout.resp)
                         ELSE IF wout.exc.type = "VelatirTimeoutError"
                         THEN ModelOnTimeout(m, tcs, i, wout.exc)
                         ELSE ModelOnException(i, wout.exc)
            IN IF wstep.next = "done" THEN wstep.result
               ELSE AloneLoop(m, tcs, wstep.idx, Tail(Tail(h)))

\* after_model of instance m on msgs, run alone
AloneModel(m, msgs, h) ==
    LET tcs == IF msgs = <<>> THEN <<>> ELSE FilterToolCalls(m, Last(msgs).tool_calls)
    IN [result |-> IF tcs = <<>> THEN ReturnNone ELSE AloneLoop(m, tcs, 1, h),
        messages |-> msgs]

Alone(m, msgs, h) ==
    IF m.class = "guardrail" THEN AloneAgent(m, msgs, h) ELSE AloneModel(m, msgs, h)

(***************************************************************************)
(* Properties.                                                             *)
(***************************************************************************)
Guardrail == mw.class = "guardrail"
HITL == mw.class = "hitl"

\* an invocation of after_agent that submitted the agent response has ended
AgentDone == Guardrail /\ pc = "done" /\ calls # <<>>

CreateCalls(c) == {i \in DOMAIN c : c[i].op = "create_review_task_sync"}
WaitCalls(c) == {i \in DOMAIN c : c[i].op = "wait_for_approval_sync"}

\* the invocation returned None and left the message sequence as it was handed in
Unchanged == result = ReturnNone /\ messages = orig

\* the invocation returned the input sequence with its last message replaced by an
\* assistant message of the given content
ReplacedLast(content) ==
    /\ result.kind = "return_state"
    /\ Len(result.messages) = Len(orig)
    /\ ButLast(result.messages) = ButLast(orig)
    /\ Last(result.messages).type = "ai"
    /\ Last(result.messages).content = content

ResultKwargs == Last(result.messages).additional_kwargs

\* the returned last message is annotated velatir_blocked, review_task_id, reason
BlockedAnnotation(id, reason) ==
    /\ {"velatir_blocked", "review_task_id", "reason"} \subseteq DOMAIN ResultKwargs
    /\ ResultKwargs.velatir_blocked = TRUE
    /\ ResultKwargs.review_task_id = id
    /\ ResultKwargs.reason = reason

\* C1: in after_model, once a verdict seen for a call of the batch is blocking
\* (Rejected or ChangeRequested) or the wait for a call has timed out, no further
\* create_review_task_sync call is made in that invocation.
C1_ShortCircuit ==
    [][(/\ HITL
        /\ pc # "idle"
        /\ \/ \E i \in DOMAIN observed : observed[i].state \in BlockingStates
           \/ sdk.kind = "sdk_timeout")
       => Cardinality(CreateCalls(calls')) <= Cardinality(CreateCalls(calls))]_vars

\* a batch of at least two calls whose first call was denied: one submission only
C1_Witness ==
    /\ HITL
    /\ pc = "done"
    /\ Len(tool_calls) >= 2
    /\ observed # <<>>
    /\ observed[1].state \in BlockingStates
    /\ result.kind = "raise"
    /\ Cardinality(CreateCalls(calls)) = 1

\* C2 (as claimed): after_model returns normally only if every reviewed tool call was
\* submitted and the last verdict seen for it is Approved.
C2_ReturnsOnlyIfAllApproved ==
    (HITL /\ pc = "done" /\ result = ReturnNone /\ tool_calls # <<>>)
    => /\ Len(observed) = Len(tool_calls)
       /\ \A i \in DOMAIN observed : observed[i].state = "Approved"

\* the verdict the invocation of after_agent resolved to is Approved
ResolvedApproved == sdk.kind = "resp" /\ sdk.resp.state = "Approved"

\* C3 (as claimed): in blocking mode after_agent returns None only if the resolved
\* verdict is Approved, and for every other outcome returns a sequence whose last
\* message is marked velatir_blocked.
C3_BlockingFailsClosed ==
    (AgentDone /\ mw.mode = "blocking")
    => /\ result = ReturnNone => ResolvedApproved
       /\ ~ResolvedApproved
            => /\ result.kind = "return_state"
               /\ "velatir_blocked" \in DOMAIN ResultKwargs
               /\ ResultKwargs.velatir_blocked = TRUE

\* C4: after_agent never raises: every invocation ends by returning None or a state,
\* whatever submission and polling did.
C4_NeverRaises ==
    /\ Guardrail => result.kind \in {"running", "return_none", "return_state"}
    /\ (Guardrail /\ pc = "done") => result.kind \in {"return_none", "return_state"}

\* polling failed with a service error and the invocation returned a state
C4_Witness ==
    /\ AgentDone
    /\ sdk.kind = "error"
    /\ Len(calls) = 2
    /\ result.kind = "return_state"

\* C5: in blocking mode an immediate Rejected or ChangeRequested verdict yields the
\* input sequence with its last message replaced by one whose content is the
\* configured blocked_message, annotated velatir_blocked = true, review_task_id = the
\* verdict's id and reason = the verdict's requested_change.
C5_ImmediateBlockSubstitutes ==
    (AgentDone /\ mw.mode = "blocking" /\ response.state \in BlockingStates)
    => /\ ReplacedLast(mw.blocked_message)
       /\ BlockedAnnotation(response.review_task_id, response.requested_change)
       /\ WaitCalls(calls) = {}

\* an immediate denial with a reason, under a configured (non-default) blocked text
C5_Witness ==
    /\ AgentDone
    /\ mw.mode = "blocking"
    /\ mw.blocked_message = "custom blocked text"
    /\ response.state = "Rejected"
    /\ response.requested_change # NoneVal
    /\ result.kind = "return_state"

\* C6: an immediate Approved verdict returns None with the sequence and its messages
\* as handed in (no annotation) and without any wait, in either mode.
C6_ImmediateApprovedNoOp ==
    (AgentDone /\ response.state = "Approved")
    => /\ Unchanged
       /\ Len(calls) = 1
       /\ WaitCalls(calls) = {}

\* an immediate approval in logging mode
C6_Witness ==
    /\ AgentDone
    /\ mw.mode = "logging"
    /\ response.state = "Approved"
    /\ result = ReturnNone

\* C7: in logging mode an immediate Rejected or ChangeRequested verdict returns None,
\* keeps every message's content, and annotates the last message with velatir_warning
\* carrying the verdict's review_task_id and requested_change.
C7_LoggingWarns ==
    (AgentDone /\ mw.mode = "logging" /\ response.state \in BlockingStates)
    => /\ result = ReturnNone
       /\ Len(messages) = Len(orig)
       /\ ButLast(messages) = ButLast(orig)
       /\ Last(messages).content = Last(orig).content
       /\ "velatir_warning" \in DOMAIN Last(messages).additional_kwargs
       /\ Last(messages).additional_kwargs.velatir_warning
            = [review_task_id |-> response.review_task_id,
               reason |-> response.requested_change]

\* an immediate change request with a reason in logging mode
C7_Witness ==
    /\ AgentDone
    /\ mw.mode = "logging"
    /\ response.state = "ChangeRequested"
    /\ response.requested_change # NoneVal
    /\ result = ReturnNone

\* C8: a service error of the submission or of the wait is gated on the mode: in
\* blocking mode the last message is replaced by the error substitute annotated
\* velatir_blocked = true and error = the error's detail; in logging mode None is
\* returned and the sequence is as handed in.
C8_ErrorGatedOnMode ==
    (AgentDone /\ sdk.kind = "error")
    => IF mw.mode = "blocking"
       THEN /\ ReplacedLast("Response blocked due to review system error.")
            /\ {"velatir_blocked", "error"} \subseteq DOMAIN ResultKwargs
            /\ ResultKwargs.velatir_blocked = TRUE
            /\ ResultKwargs.error = sdk.error
       ELSE Unchanged

\* the wait failed with a service error in blocking mode
C8_Witness ==
    /\ AgentDone
    /\ mw.mode = "blocking"
    /\ sdk.kind = "error"
    /\ WaitCalls(calls) # {}
    /\ result.kind = "return_state"

\* C9: when the wait reaches its attempt cap, blocking mode replaces the last message
\* by the timeout substitute (velatir_blocked = true, review_task_id = the id the
\* submission returned) and never by the error substitute; logging mode returns None
\* with the sequence as handed in.
C9_TimeoutSubstitute ==
    (AgentDone /\ sdk.kind = "sdk_timeout")
    => IF mw.mode = "blocking"
       THEN /\ ReplacedLast("Response review timed out.")
            /\ BlockedAnnotation(response.review_task_id, "Timeout waiting for approval")
            /\ "error" \notin DOMAIN ResultKwargs
       ELSE Unchanged

\* a wait that timed out in blocking mode
C9_Witness ==
    /\ AgentDone
    /\ mw.mode = "blocking"
    /\ sdk.kind = "sdk_timeout"
    /\ response.state \notin TerminalStates
    /\ result.kind = "return_state"

\* C10: a non-terminal immediate verdict is waited for, on the submitted task, with
\* the configured polling_interval and approval_timeout, and no other immediate
\* verdict is; a final Approved returns None with the sequence as handed in; a final
\* Rejected or ChangeRequested in blocking mode yields the blocked_message
\* substitute annotated with the final verdict's id and requested_change.
C10_WaitThenResolve ==
    /\ (Guardrail /\ pc = "agent_wait") => response.state \notin TerminalStates
    /\ (AgentDone /\ response # NoResponse /\ response.state \notin TerminalStates)
       => /\ Len(calls) = 2
          /\ calls[2].op = "wait_for_approval_sync"
          /\ calls[2].review_task_id = response.review_task_id
          /\ calls[2].polling_interval = mw.polling_interval
          /\ calls[2].timeout = Some(mw.approval_timeout)
          /\ final.state = "Approved" => Unchanged
          /\ (final.state \in BlockingStates /\ mw.mode = "blocking")
             => /\ ReplacedLast(mw.blocked_message)
                /\ BlockedAnnotation(final.review_task_id, final.requested_change)

\* a pending response that was rejected with a reason after waiting, in blocking mode
C10_Witness ==
    /\ AgentDone
    /\ mw.mode = "blocking"
    /\ response.state = "Pending"
    /\ final.state = "Rejected"
    /\ final.requested_change # NoneVal
    /\ result.kind = "return_state"

\* an invocation of after_model that had tool calls to review has ended
ModelDone == HITL /\ pc = "done" /\ tool_calls # <<>>

\* the names of the tool calls submitted so far, in the order of submission
SubmittedNames ==
    LET cs == SelectSeq(calls, LAMBDA c : c.op = "create_review_task_sync")
    IN [i \in DOMAIN cs |-> cs[i].function_name]

\* the tool calls of the last message handed to after_model
Batch == IF orig = <<>> THEN <<>> ELSE Last(orig).tool_calls

\* C11 (as claimed): when the last verdict seen for a reviewed tool call, immediate or
\* final, is Rejected or ChangeRequested, after_model ends by raising
\* VelatirApprovalDeniedError naming the tool and carrying that verdict's
\* review_task_id and requested_change.
C11_DenialRaised ==
    (ModelDone /\ observed # <<>> /\ Last(observed).state \in BlockingStates)
    => result = Raise([type |-> "VelatirApprovalDeniedError",
                       tool_name |-> tool_calls[idx].name,
                       review_task_id |-> Last(observed).review_task_id,
                       requested_change |-> Last(observed).requested_change])

\* C12: when the wait for a tool call reaches its attempt cap, after_model raises
\* VelatirTimeoutError naming the tool, with timeout_seconds = the configured timeout
\* and review_task_id = the id of the task the wait was polling.
C12_TimeoutRaised ==
    (ModelDone /\ sdk.kind = "sdk_timeout")
    => /\ result = Raise([type |-> "VelatirTimeoutError",
                          tool_name |-> tool_calls[idx].name,
                          review_task_id |-> response.review_task_id,
                          timeout_seconds |-> mw.timeout])
       /\ Last(calls).op = "wait_for_approval_sync"
       /\ Last(calls).review_task_id = response.review_task_id

\* the wait for the second call of a batch timed out after less than the configured time
C12_Witness ==
    /\ ModelDone
    /\ idx = 2
    /\ sdk.kind = "sdk_timeout"
    /\ sdk.elapsed # mw.timeout
    /\ result.kind = "raise"

\* C13: a service error raised by a submission or a wait inside after_model leaves the
\* hook as the same error: the invocation ends at once, raising it.
C13_ServiceErrorPropagates ==
    (HITL /\ sdk.kind = "error")
    => /\ pc = "done"
       /\ result = Raise([type |-> sdk.error])

\* the wait for the first of two calls failed with a service error
C13_Witness ==
    /\ ModelDone
    /\ Len(tool_calls) >= 2
    /\ idx = 1
    /\ sdk.kind = "error"
    /\ WaitCalls(calls) # {}

\* C14: with an allow-list, every submitted call has a listed name (whatever verdicts
\* were seen), and a batch without a listed call ends at once with None and no call
\* on the client.
C14_AllowListOnly ==
    (HITL /\ pc # "idle" /\ ~mw.require_approval_for.none)
    => /\ \A i \in CreateCalls(calls) :
             calls[i].function_name \in mw.require_approval_for.names
       /\ (\A i \in DOMAIN Batch : Batch[i].name \notin mw.require_approval_for.names)
          => (pc = "done" /\ result = ReturnNone /\ calls = <<>>)

\* [read_file, delete_file] under the allow-list [delete_file]: only delete_file was
\* submitted, it was rejected, and the hook raised
C14_Witness ==
    /\ ModelDone
    /\ ~mw.require_approval_for.none
    /\ mw.require_approval_for.names = {"delete_file"}
    /\ Len(Batch) = 2
    /\ Batch[1].name = "read_file"
    /\ SubmittedNames = <<"delete_file">>
    /\ result.kind = "raise"
    /\ result.exc.type = "VelatirApprovalDeniedError"

\* C15: without an allow-list, after_model returns None only after every tool call of
\* the last message has been submitted, in order.
C15_NoListReviewsAll ==
    (HITL /\ pc = "done" /\ mw.require_approval_for.none /\ result = ReturnNone)
    => SubmittedNames = [i \in DOMAIN Batch |-> Batch[i].name]

\* a batch of two calls, both submitted, returned None
C15_Witness ==
    /\ ModelDone
    /\ mw.require_approval_for.none
    /\ result = ReturnNone
    /\ Len(Batch) = 2
    /\ Len(SubmittedNames) = 2

\* C16 (as claimed): tool calls are submitted in the order of the message, and when a
\* further call has been submitted every earlier call's verdict is Approved (no two
\* tasks of a batch are unresolved at once).
C16_StrictlySequential ==
    HITL
    => /\ Len(SubmittedNames) <= Len(tool_calls)
       /\ \A i \in DOMAIN SubmittedNames : SubmittedNames[i] = tool_calls[i].name
       /\ \A i \in DOMAIN observed : i < Len(observed) => observed[i].state = "Approved"

(***************************************************************************)
(* The client wrapper's waits.                                             *)
(***************************************************************************)
\* a wait is being followed
PollActive == poll.phase # "idle"

\* the wrapper raised the package's VelatirTimeoutError
RaisedTimeout(q) ==
    q.phase = "returned" /\ q.wres.kind = "raise" /\ q.wres.exc.type = "VelatirTimeoutError"

\* C17 (as claimed): for every poll interval p > 0 and timeout t >= 0, in either calling
\* convention, the max_attempts handed to the polling loop is exactly floor(t/p) + 1
\* (t and p the durations given, here in tenths of a second); no more than
\* that many status calls are made; and once that many calls have been made without a
\* terminal state no further call follows: the loop gives up and the wait fails with
\* VelatirTimeoutError.
C17_AttemptCap ==
    (PollActive /\ poll.timeout # Unset /\ poll.timeout[1] >= 0 /\ poll.polling_interval > 0) =>
        LET cap == (poll.timeout[1] \div poll.polling_interval) + 1
        IN /\ poll.max_attempts = Some(cap)
           /\ poll.attempts <= cap
           /\ (poll.phase = "polling" /\ poll.attempts = cap) =>
                  (~ENABLED SdkPoll /\ ENABLED SdkGiveUp)
           /\ (poll.outcome.kind = "sdk_timeout") =>
                  (poll.attempts = cap /\ poll.st \notin TerminalStates)
           /\ (poll.phase = "returned" /\ poll.outcome.kind = "sdk_timeout") =>
                  RaisedTimeout(poll)

\* a synchronous wait with timeout 0.3 s and interval 0.2 s made its 2 status calls,
\* none terminal, and failed with VelatirTimeoutError
C17_Witness ==
    /\ poll.conv = "sync"
    /\ poll.timeout = Some(3)
    /\ poll.polling_interval = 2
    /\ poll.attempts = 2
    /\ RaisedTimeout(poll)

\* C19: a wait called with timeout None, in either calling convention, hands
\* max_attempts None to the loop; the loop goes on making status calls while the state
\* is non-terminal, ends only on a terminal state or a service failure, and the wait
\* never fails with a timeout error.
C19_NoCapWhenUnset ==
    (PollActive /\ poll.timeout = Unset) =>
        /\ poll.max_attempts = Unset
        /\ ~ENABLED SdkGiveUp
        /\ (poll.phase = "polling" /\ poll.attempts < MaxPolls) => ENABLED SdkPoll
        /\ (poll.phase = "polling") => poll.st \notin TerminalStates
        /\ (poll.phase # "polling") =>
              \/ poll.outcome.kind = "error"
              \/ poll.outcome.kind = "resp" /\ poll.outcome.resp.state \in TerminalStates
        /\ ~RaisedTimeout(poll)

\* an asynchronous wait without timeout is still polling after MaxPolls status calls
C19_Witness ==
    /\ poll.conv = "async"
    /\ poll.timeout = Unset
    /\ poll.phase = "polling"
    /\ poll.attempts = MaxPolls
    /\ poll.st \notin TerminalStates

\* C20: when the SDK's loop ends with its own timeout error, the wait, in either
\* calling convention, raises the package's VelatirTimeoutError, never the SDK's, with
\* review_task_id the id that was polled and timeout_seconds the time elapsed since the
\* wait was entered.
C20_PackageTimeoutError ==
    (poll.phase = "returned" /\ poll.outcome.kind = "sdk_timeout") =>
        poll.wres = [kind |-> "raise",
                     exc |-> [type |-> "VelatirTimeoutError",
                              review_task_id |-> poll.review_task_id,
                              timeout_seconds |-> poll.clock - poll.start]]

\* a synchronous wait entered at time 7 with timeout 3 and interval 2 (tenths of a
\* second) failed after 2: the error carries 2, not 3
C20_Witness ==
    /\ poll.conv = "sync"
    /\ poll.phase = "returned"
    /\ poll.outcome.kind = "sdk_timeout"
    /\ poll.start = 7
    /\ poll.timeout = Some(3)
    /\ poll.wres.exc.timeout_seconds = 2

(***************************************************************************)
(* Termination of the hooks.                                               *)
(***************************************************************************)
\* C18: with the middleware's finite timeout and positive poll interval, every
\* invocation of after_agent and of after_model that has begun eventually ends (returns
\* or raises), whatever the service answers, a task that never becomes terminal
\* included: its wait ends at the attempt cap.
C18_Terminates == (pc # "idle") ~> (pc = "done")

\* an invocation ended after a wait that reached its attempt cap on a task still
\* non-terminal
C18_Witness ==
    /\ pc = "done"
    /\ sdk.kind = "sdk_timeout"
    /\ calls # <<>>
    /\ calls[Len(calls)].max_attempts = Some(3)
    /\ sdk.elapsed = 2

(***************************************************************************)
(* The two calling conventions, and the scenario of three status calls.    *)
(***************************************************************************)
\* the wait of the followed call replayed in calling convention conv on the answers
\* the service gave so far
Replay(conv) ==
    RunWait(conv, poll.review_task_id, poll.polling_interval, poll.timeout, "Pending",
            poll.start, poll.seen)

\* C21: for the same review_task_id, polling_interval, timeout and the same sequence of
\* service answers, wait_for_approval and wait_for_approval_sync make the same number
\* of status calls and end alike (the same verdict, the same VelatirTimeoutError, the
\* same service error), and that is what the followed call made and ended with;
\* create_review_task / get_review_task_status and their _sync variants hand back the
\* same verdict or error for the same answer of the SDK.
C21_SyncAsyncParity ==
    PollActive =>
        /\ Replay("sync") = Replay("async")
        /\ (poll.phase = "answered") =>
               Replay(poll.conv) = [attempts |-> poll.attempts, result |-> Translate(poll)]
        /\ (poll.phase = "returned") =>
               Replay(poll.conv) = [attempts |-> poll.attempts, result |-> poll.wres]
        /\ \A o \in SdkCreateOutcomes(poll.review_task_id) :
               /\ create_review_task(o) = create_review_task_sync(o)
               /\ get_review_task_status(o) = get_review_task_status_sync(o)

\* an asynchronous wait that made two status calls, the second one at its cap, and
\* raised VelatirTimeoutError
C21_Witness ==
    /\ poll.conv = "async"
    /\ poll.attempts = 2
    /\ Len(poll.seen) = 2
    /\ RaisedTimeout(poll)

\* the states the service answered, in order (a failed call has none)
SeenStates == [i \in DOMAIN poll.seen |-> poll.seen[i].state]

\* C22: when the status calls of a wait are answered Pending, Pending, Approved, the wait
\* returns the Approved verdict of the polled task after exactly 3 status calls; in
\* general a terminal answer is the last one: no status call follows it.
C22_ThreeStatusCalls ==
    PollActive =>
        /\ (SeenStates = <<"Pending", "Pending", "Approved">>) =>
              /\ poll.attempts = 3
              /\ poll.phase \in {"answered", "returned"}
              /\ ~ENABLED SdkPoll
              /\ poll.outcome = [kind |-> "resp",
                                 resp |-> VelatirResponse(poll.review_task_id, "Approved",
                                                          NoneVal)]
              /\ (poll.phase = "returned") =>
                    poll.wres = [kind |-> "return",
                                 resp |-> VelatirResponse(poll.review_task_id, "Approved",
                                                          NoneVal)]
        /\ \A i \in DOMAIN poll.seen :
              (poll.seen[i].state \in TerminalStates) =>
                  (i = Len(poll.seen) /\ poll.phase # "polling")
        /\ poll.attempts = Len(poll.seen)

\* a synchronous wait with interval 1 on a Pending task returned after the answers
\* Pending, Pending, Approved
C22_Witness ==
    /\ poll.conv = "sync"
    /\ poll.polling_interval = 1
    /\ poll.phase = "returned"
    /\ SeenStates = <<"Pending", "Pending", "Approved">>
    /\ poll.clock - poll.start = 2

(***************************************************************************)
(* Classification of verdicts, and the submissions of an invocation.       *)
(***************************************************************************)
\* the blocking test of both hooks
IsBlocking(r) == is_denied(r) \/ is_change_requested(r)

\* C23: the blocking test (is_denied or is_change_requested) is true exactly for Rejected
\* and ChangeRequested, is_approved exactly for Approved, both are false for Pending,
\* Processing and RequiresIntervention, so that every state of the enumeration is of
\* exactly one class; and each hook takes, for a verdict it received, the one branch of
\* the verdict's class: after_agent ends on an immediate approved or blocking verdict
\* and waits on any other, and the verdict returned by a wait is treated as approved
\* (go on), blocking (substitute in blocking mode, raise in after_model) or neither.
C23_VerdictPartition ==
    /\ \A st \in ReviewTaskState :
          LET r == VelatirResponse(1, st, NoneVal)
              nonterminal == st \in {"Pending", "Processing", "RequiresIntervention"}
          IN /\ IsBlocking(r) <=> st \in {"Rejected", "ChangeRequested"}
             /\ is_approved(r) <=> st = "Approved"
             /\ nonterminal => (~IsBlocking(r) /\ ~is_approved(r))
             /\ Cardinality({b \in {"approved", "blocking", "nonterminal"} :
                                \/ b = "approved" /\ is_approved(r)
                                \/ b = "blocking" /\ IsBlocking(r)
                                \/ b = "nonterminal" /\ nonterminal}) = 1
    /\ (Guardrail /\ pc \in {"agent_wait", "done"} /\ response # NoResponse) =>
          /\ (response.state = "Approved") => (pc = "done" /\ Unchanged /\ Len(calls) = 1)
          /\ (response.state \in {"Rejected", "ChangeRequested"}) =>
                /\ pc = "done"
                /\ Len(calls) = 1
                /\ IF mw.mode = "blocking"
                   THEN ReplacedLast(mw.blocked_message)
                   ELSE "velatir_warning" \in DOMAIN Last(messages).additional_kwargs
          /\ (response.state \in {"Pending", "Processing", "RequiresIntervention"}) =>
                (pc = "agent_wait" \/ Len(calls) = 2)
    /\ (AgentDone /\ final # NoResponse) =>
          /\ (final.state = "Approved") => Unchanged
          /\ (final.state \in {"Rejected", "ChangeRequested"}) =>
                IF mw.mode = "blocking" THEN ReplacedLast(mw.blocked_message) ELSE Unchanged
          /\ (final.state \in {"Pending", "Processing", "RequiresIntervention"}) => Unchanged
    /\ (HITL /\ pc # "idle" /\ final # NoResponse) =>
          /\ (final.state \in {"Rejected", "ChangeRequested"}) <=>
                (pc = "done" /\ result.kind = "raise"
                 /\ result.exc.type = "VelatirApprovalDeniedError")
          /\ (final.state \notin {"Rejected", "ChangeRequested"}) =>
                (result = ReturnNone \/ pc = "model_submit")

\* after_agent in logging mode took the blocking branch for an immediate ChangeRequested
C23_Witness ==
    /\ AgentDone
    /\ mw.mode = "logging"
    /\ response.state = "ChangeRequested"
    /\ "velatir_warning" \in DOMAIN Last(messages).additional_kwargs

\* the create_review_task_sync calls made so far, in order
Creates == SelectSeq(calls, LAMBDA c : c.op = "create_review_task_sync")

\* C24: an invocation of after_agent on a sequence ending in an assistant message makes
\* exactly one create_review_task_sync call, whatever the verdict, timeout or error;
\* an invocation of after_model makes at most one per tool call, the i-th call for
\* the i-th tool call under review.
C24_SubmittedOnce ==
    /\ Guardrail => Len(Creates) <= 1
    /\ (Guardrail /\ pc \in {"agent_wait", "done"} /\ orig # <<>> /\ Last(orig).type = "ai") =>
          (Len(Creates) = 1 /\ Creates[1] = AgentTask(mw, orig))
    /\ HITL =>
          /\ Len(Creates) <= Len(tool_calls)
          /\ \A i \in DOMAIN Creates : Creates[i] = ToolTask(mw, orig, tool_calls[i])

\* after_agent ended on a timeout of its wait having submitted once
C24_Witness ==
    /\ AgentDone
    /\ sdk.kind = "sdk_timeout"
    /\ Len(Creates) = 1
    /\ Len(calls) = 2

\* C26: after_agent on an empty sequence, or on one whose last message is no assistant
\* message, returns None, leaves the sequence as it is and calls the client not at all
\* (no submission, no wait, hence no status call).
C26_NoOpWithoutAIMessage ==
    (Guardrail /\ pc # "idle" /\ (orig = <<>> \/ Last(orig).type # "ai")) =>
        /\ pc = "done"
        /\ Unchanged
        /\ calls = <<>>
        /\ sdk = NoOutcome

\* after_agent returned on a sequence that ends in a human message
C26_Witness ==
    /\ Guardrail
    /\ pc = "done"
    /\ orig # <<>>
    /\ Last(orig).type = "human"
    /\ result = ReturnNone

(***************************************************************************)
(* Construction.                                                           *)
(***************************************************************************)
\* the constructor call with its mode, a string, given as the member of that value
WithMember(c) == [c EXCEPT !.mode = [kind |-> "member", v |-> MemberOfValue(c.mode.v)]]

\* C27: __init__ with only an API key makes a guardrail in blocking mode with
\* approval_timeout 30 s and polling_interval 2 s (the default blocked message, no
\* metadata), and a tool gate with polling_interval 5 s, timeout 600 s and no allow-list;
\* a mode given as the string "blocking" or "logging" makes the very instance that the
\* GuardrailMode member of that value makes, so every hook behaves alike on both.
C27_Defaults ==
    [][(mw.class = "call") =>
         /\ (mw = GuardrailCall(Omitted, Omitted, Omitted, Omitted, Omitted)) =>
               mw' = [class |-> "guardrail", mode |-> "blocking", approval_timeout |-> Seconds(30),
                      polling_interval |-> Seconds(2),
                      blocked_message |->
                          "This response requires review and was not approved.",
                      metadata |-> EmptyDict]
         /\ (mw = HITLCall(Omitted, Omitted, Omitted, Omitted)) =>
               mw' = [class |-> "hitl", polling_interval |-> Seconds(5),
                      timeout |-> Seconds(600),
                      require_approval_for |-> [none |-> TRUE, names |-> {}],
                      metadata |-> EmptyDict]
         /\ (mw.of = "guardrail" /\ mw.mode.kind = "str") =>
               /\ mw'.mode = mw.mode.v
               /\ mw' = Construct(WithMember(mw))
         /\ (mw.of = "guardrail" /\ mw.mode.kind = "member") =>
               mw'.mode = (IF mw.mode.v = "BLOCKING" THEN "blocking" ELSE "logging")
      ]_vars

\* a guardrail made with only an API key substituted the response on an immediate denial
C27_Witness ==
    /\ mw.class = "guardrail"
    /\ mw = [class |-> "guardrail", mode |-> "blocking", approval_timeout |-> Seconds(30),
              polling_interval |-> Seconds(2),
              blocked_message |-> "This response requires review and was not approved.",
              metadata |-> EmptyDict]
    /\ pc = "done"
    /\ response.state = "Rejected"
    /\ result.kind = "return_state"

(***************************************************************************)
(* When the hooks wait, and what the guardrail does with a resolved        *)
(* verdict.                                                                *)
(***************************************************************************)
\* C28 (as claimed): after_model enters the wait for a tool call only when the immediate
\* verdict of its task is non-terminal; on an immediate Rejected or ChangeRequested
\* verdict it ends by raising VelatirApprovalDeniedError for that verdict, no
\* wait_for_approval_sync call having been made for the task.
C28_WaitOnlyIfNonTerminal ==
    /\ (HITL /\ pc = "model_wait") => response.state \notin TerminalStates
    /\ (HITL /\ pc # "idle" /\ response.state \in BlockingStates) =>
          /\ pc = "done"
          /\ result = Raise(VelatirApprovalDeniedError(tool_calls[idx].name, response))
          /\ \A i \in WaitCalls(calls) : calls[i].review_task_id # response.review_task_id

\* C29: after_agent enters the wait only when the immediate verdict is non-terminal: on
\* an immediate Approved, Rejected or ChangeRequested verdict it ends with no
\* wait_for_approval_sync call made; and no invocation makes more than one such call.
C29_GuardrailWaitsOnce ==
    Guardrail =>
        /\ Cardinality(WaitCalls(calls)) <= 1
        /\ (pc = "agent_wait" \/ WaitCalls(calls) # {}) =>
              (response # NoResponse /\ response.state \notin TerminalStates)
        /\ (response.state \in TerminalStates) =>
              (pc = "done" /\ WaitCalls(calls) = {} /\ Len(calls) = 1)

\* after_agent ended after its one wait, which returned a verdict still non-terminal
C29_Witness ==
    /\ AgentDone
    /\ response.state = "RequiresIntervention"
    /\ final.state = "Processing"
    /\ Cardinality(WaitCalls(calls)) = 1

\* C30 (as claimed): in logging mode a Rejected or ChangeRequested verdict leaves the
\* response in place and flags it velatir_warning with the verdict's review_task_id
\* and reason, whether the verdict came with the submission or from the wait.
C30_SameOutcomeAfterWait ==
    (AgentDone /\ mw.mode = "logging" /\ sdk.kind = "resp"
     /\ sdk.resp.state \in BlockingStates) =>
        /\ result = ReturnNone
        /\ Last(messages).content = Last(orig).content
        /\ "velatir_warning" \in DOMAIN Last(messages).additional_kwargs
        /\ Last(messages).additional_kwargs.velatir_warning
             = [review_task_id |-> sdk.resp.review_task_id,
                reason |-> sdk.resp.requested_change]

(***************************************************************************)
(* Two invocations at once.                                                *)
(***************************************************************************)
\* every verdict and every wait in the local variables f of thread k is of a task of
\* thread k
Owned(f, k) ==
    /\ \A i \in DOMAIN f.observed : f.observed[i].review_task_id \in OwnIds(k)
    /\ f.response # NoResponse => f.response.review_task_id \in OwnIds(k)
    /\ f.final # NoResponse => f.final.review_task_id \in OwnIds(k)
    /\ \A i \in WaitCalls(f.calls) : f.calls[i].review_task_id \in OwnIds(k)

\* thread k, if its invocation has ended, ended as the invocation does when run alone
\* on the same message sequence with the same answers of the SDK
AsAlone(f, k) ==
    (f.pc = "done") =>
        [result |-> f.result, messages |-> f.messages] = Alone(mw, f.orig, pair.hist[k])

\* C25: under every interleaving of two invocations on one instance at their calls of
\* the client, each invocation ends with the outcome it has when run alone (same
\* message sequence, same answers of the service to its own calls), and no verdict or
\* task id of one invocation appears in the other's variables, waits or outcome.
C25_NoInterference ==
    (pair.cur # 0) =>
        /\ Owned(Frame, pair.cur)
        /\ Owned(pair.susp, 3 - pair.cur)
        /\ AsAlone(Frame, pair.cur)
        /\ AsAlone(pair.susp, 3 - pair.cur)

\* thread 2 was suspended in its wait while thread 1 submitted, waited and was blocked
C25_Witness ==
    /\ pair.cur = 1
    /\ pc = "done"
    /\ Len(calls) = 2
    /\ result.kind = "return_state"
    /\ pair.susp.pc = "agent_wait"
    /\ Len(pair.hist[2]) = 1

(***************************************************************************)
(* Frame of the substitution.                                              *)
(***************************************************************************)
\* C31: whenever after_agent returns a replaced sequence (denial, timeout or error),
\* that sequence has the length of the input, every message before the last is the
\* input's message at the same position, and the caller's sequence, its last message
\* included, is as it was handed in.
C31_SubstitutionOnlyLast ==
    (Guardrail /\ pc = "done" /\ result.kind = "return_state") =>
        /\ Len(result.messages) = Len(orig)
        /\ \A i \in 1..(Len(orig) - 1) : result.messages[i] = orig[i]
        /\ messages = orig

\* a substitute was returned for a response that follows another message
C31_Witness ==
    /\ Guardrail
    /\ pc = "done"
    /\ result.kind = "return_state"
    /\ Len(orig) = 2
    /\ Last(result.messages) # Last(orig)
    /\ result.messages[1] = orig[1]

(***************************************************************************)
(* Logging mode.                                                           *)
(***************************************************************************)
\* the message now is the message then, but for a velatir_warning entry that may have
\* been set in its additional_kwargs
SameButWarning(now, then) ==
    \/ now = then
    \/ /\ "velatir_warning" \in DOMAIN now.additional_kwargs
       /\ now = [then EXCEPT !.additional_kwargs =
                    DictSet(@, "velatir_warning", now.additional_kwargs.velatir_warning)]

\* C32: in logging mode after_agent, on every path, returns None and never a replaced
\* sequence; the conversation keeps its length and its messages before the last, the
\* last message keeps its content, and the only difference it may show is the
\* velatir_warning annotation.
C32_LoggingNeverAlters ==
    (Guardrail /\ mw.mode = "logging") =>
        /\ result \in {Running, ReturnNone}
        /\ (pc = "done") => (result = ReturnNone)
        /\ Len(messages) = Len(orig)
        /\ \A i \in 1..(Len(orig) - 1) : messages[i] = orig[i]
        /\ (orig # <<>>) =>
              /\ Last(messages).content = Last(orig).content
              /\ SameButWarning(Last(messages), Last(orig))

\* logging mode met a blocking verdict, annotated the response in place and returned
\* None
C32_Witness ==
    /\ Guardrail
    /\ mw.mode = "logging"
    /\ pc = "done"
    /\ result = ReturnNone
    /\ sdk.kind = "resp"
    /\ sdk.resp.state \in BlockingStates
    /\ Last(messages) # Last(orig)

\* logging mode met a timed-out wait and returned None
C32_WitnessTimeout ==
    /\ Guardrail
    /\ mw.mode = "logging"
    /\ pc = "done"
    /\ result = ReturnNone
    /\ Len(calls) = 2
    /\ sdk.kind = "sdk_timeout"
    /\ messages = orig

(***************************************************************************)
(* The configuration of an instance.                                       *)
(***************************************************************************)
\* C33: no step of after_agent or after_model, whatever its outcome, and no return
\* to the host between two invocations changes the instance: its mode, timeouts,
\* poll interval, blocked message, allow-list and static metadata stay those of its
\* construction; the metadata of a task, with its middleware / mode / tool_call_id
\* entries, is built beside the configured metadata.
C33_ConfigurationImmutable ==
    [][/\ mw'.class = mw.class
       /\ mw'.polling_interval = mw.polling_interval
       /\ mw'.metadata = mw.metadata
       /\ Guardrail => /\ mw'.mode = mw.mode
                       /\ mw'.approval_timeout = mw.approval_timeout
                       /\ mw'.blocked_message = mw.blocked_message
       /\ HITL => /\ mw'.timeout = mw.timeout
                  /\ mw'.require_approval_for = mw.require_approval_for]_vars

\* a task was submitted whose metadata overrides an entry of the configured
\* metadata, which still holds its own value
C33_Witness ==
    /\ pc = "done"
    /\ calls # <<>>
    /\ "middleware" \in DOMAIN mw.metadata
    /\ mw.metadata.middleware = "custom"
    /\ calls[1].metadata.middleware # "custom"
    /\ "team" \in DOMAIN calls[1].metadata

(***************************************************************************)
(* The empty allow-list.                                                   *)
(***************************************************************************)
\* C34: an instance configured with the empty allow-list (require_approval_for = [])
\* submits no tool call and returns None for every batch, while an instance without
\* an allow-list (None) takes the whole batch for review.
C34_EmptyAllowListReviewsNothing ==
    (HITL /\ pc # "idle") =>
        /\ (~mw.require_approval_for.none /\ mw.require_approval_for.names = {})
             => (pc = "done" /\ result = ReturnNone /\ calls = <<>> /\ tool_calls = <<>>)
        /\ mw.require_approval_for.none => (tool_calls = Batch)

\* a batch of two tool calls under the empty allow-list: nothing was submitted and the
\* hook returned None
C34_Witness ==
    /\ HITL
    /\ ~mw.require_approval_for.none
    /\ mw.require_approval_for.names = {}
    /\ pc = "done"
    /\ Len(Batch) = 2
    /\ calls = <<>>
    /\ result = ReturnNone
====
